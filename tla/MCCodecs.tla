------------------------------ MODULE MCCodecs ------------------------------
(* Instances of Codecs for TLC: messages with scripts, lists and numbers about the *)
(* limits of a variable length integer, all small filters, and small entries.      *)
EXTENDS Codecs, FiniteSets

\* A checksum that counts bytes.
MCChecksum(s) ==
  <<Len(s) % Base>> \o [d \in 1 .. 3 |-> Cardinality({i \in 1 .. Len(s) : s[i] = d}) % Base]

\* A hash and scripts of lengths about the limits of a variable length integer.
H(n) == [i \in 1 .. 32 |-> (n + i) % Base]
Script(n) == [i \in 1 .. n |-> (i + 1) % Base]

TheTx(nIn, nOut, wits, len) ==
  [version |-> 1,
   inputs |-> [i \in 1 .. nIn |-> [prev_output |-> [hash |-> H(i), index |-> 7 + i],
                                   unlock_script |-> Script(len), sequence |-> Base ^ 4 - 1]],
   outputs |-> [i \in 1 .. nOut |-> [satoshis |-> Base ^ 5 + i, lock_script |-> Script(3)]],
   witnesses |-> wits, lock_time |-> 40]

Header(n) == [version |-> 2, prev_hash |-> H(n), merkle_root |-> H(n + 1), timestamp |-> 500,
              bits |-> 9, nonce |-> n]

Ver(version, timestamp, relay) ==
  [version |-> version, services |-> 1, timestamp |-> timestamp,
   recv_addr |-> [services |-> 0, ip |-> [i \in 1 .. 16 |-> i % Base], port |-> 13],
   tx_addr |-> [services |-> 1, ip |-> [i \in 1 .. 16 |-> 0], port |-> 0],
   nonce |-> 3, user_agent |-> <<1, 2>>, start_height |-> 100, relay |-> relay]

Msg(cmd, val) == [cmd |-> cmd, val |-> val]

Locator(n) == [version |-> 70, block_locator_hashes |-> [i \in 1 .. n |-> H(i)], hash_stop |-> H(0)]

Plain ==
  {[cmd |-> c] : c \in WithoutPayload}
    \cup {Msg("tx", TheTx(1, 1, <<>>, len)) : len \in {0, Base - 4, Base - 3, Base ^ 2 - 1, Base ^ 2}}
    \cup {Msg("tx", TheTx(1, 0, <<>>, 2)), Msg("tx", TheTx(2, 1, << << <<Script(2), Script(4)>>, <<>> >> >>, 0)),
          Msg("block", [header |-> Header(1), txns |-> <<TheTx(1, 2, <<>>, 1),
                                                       TheTx(1, 1, << << <<Script(3)>> >> >>, 0)>>]),
          Msg("block", [header |-> Header(2), txns |-> <<>>]),
          Msg("getheaders", Locator(1)), Msg("getblocks", Locator(0)),
          Msg("getcfilters", [filter_type |-> 0, start_height |-> 77, hash_stop |-> H(1)]),
          Msg("getcfheaders", [filter_type |-> 0, start_height |-> 1, hash_stop |-> H(2)]),
          Msg("cfheaders", [filter_type |-> 0, stop_hash |-> H(1), previous_filter_header |-> H(2),
                          filter_hashes |-> <<H(3), H(4), H(5)>>]),
          Msg("ping", [nonce |-> Base ^ 6]), Msg("pong", [nonce |-> 0]),
          Msg("reject", [message |-> <<1>>, code |-> 1, reason |-> <<3, 4>>, data |-> H(2)]),
          Msg("reject", [message |-> <<3, 3, 3>>, code |-> 2, reason |-> <<>>, data |-> <<>>]),
          Msg("version", Ver(MinVersion, Now, 1)), Msg("version", Ver(MinVersion + 1, Now - MaxDrift, 0)),
          Msg("version", Ver(MinVersion - 1, Now, 1)), Msg("version", Ver(MinVersion, Now + MaxDrift + 1, 0)),
          Msg("feefilter", <<1, 2, 3>>), Msg("feefilter", <<>>)}
    \cup {Msg("headers", [inner |-> [i \in 1 .. n |-> Header(i)]]) : n \in {0, 1, Base - 3}}
    \cup {Msg(c, [objects |-> [i \in 1 .. n |-> [obj_type |-> i, hash |-> H(i)]]]) :
            c \in {"getdata", "notfound", "inv"}, n \in {0, MaxInv}}
    \cup {Msg("cfilter", [filter_type |-> 0, block_hash |-> H(1), filter_bytes |-> Script(n)]) :
            n \in {0, Base ^ 2}}

\* Sorted sequences of at most n of the numbers below HashRange, with repetitions.
Multisets(n) ==
  {s \in UNION {[1 .. k -> 0 .. HashRange - 1] : k \in 0 .. n} :
     \A i \in 1 .. Len(s) - 1 : s[i] <= s[i + 1]}

MCBlocks == Multisets(3)
MCQueries == Multisets(2)

\* Any message, and a ping after it.
MCSample ==
  << Plain \cup {Msg("cfilter", [filter_type |-> 0, block_hash |-> H(1), filter_bytes |-> FilterOf(b)]) :
                   b \in MCBlocks},
     {Msg("ping", [nonce |-> 5])} >>

\* Keys and values of entries: none, one and more bytes than a digit counts.
MCKeys == {<<>>, <<1, 3>>}
MCValues == {<<>>, <<7>>, <<2, 4, 6, 1, 3, 5, 7, 0, 2>>}

=============================================================================
