-------------------------------- MODULE MCRfc --------------------------------
(***************************************************************************)
(* The functions of Rfc on every input of a few pieces, and beside them    *)
(* the messages of Sha1.                                                   *)
(***************************************************************************)
EXTENDS Rfc

F == 70
Fields(start, alphabet, most) == [start |-> start, pieces |-> [n \in 1..most |-> alphabet]]
Each(values) == {<<v>> : v \in values}

MCSubjects ==
    [ escapes |-> Fields(<<>>, Each({97, 65, Slash, 32, 50, Percent}) \cup
                               {<<Percent, 50, 70>>, <<Percent, 50, 102>>, <<Percent, 50, 53>>,
                                <<Percent, 52, 49>>}, 4),
      path |-> Fields(<<Slash>>, Each({Slash, 97, Dot}), 9),
      ipv6 |-> Fields(<<>>, {<<F>>, <<Colon>>, <<F, Colon>>}, 9),
      ipv6with4 |-> Fields(<<>>, {<<F>>, <<Colon>>, <<F, Colon>>, <<49, Dot, 49, Dot, 49, Dot, 49>>}, 8),
      octets |-> Fields(<<Colon, Colon, 57, Dot, 57, Dot>>, Each({Dot, 48, 49, 50, 53, 54, F}), 6),
      scheme |-> Fields(<<>>, Each({F, Colon, 49, 43, Percent}), 4),
      hier |-> Fields(<<F, Colon>>, Each({97, Colon, Slash, Question, Hash, At, Percent, 32}) \cup
                                    {<<Percent, 52, 49>>}, 5),
      authority |-> Fields(<<F, Colon, Slash, Slash>>,
                           Each({97, 49, Colon, Slash, Question, At, Percent, 91, 93}) \cup
                           {<<Percent, 52, 49>>, <<91, Colon, Colon, 93>>}, 5),
      symbols |-> Fields(<<>>, Each({65, 127, 128, 2047, 2048, 55295, 55296, 57343, 57344,
                                     65535, 65536, 1114111, 1114112}), 3),
      utf8 |-> Fields(<<>>, Each({65, 128, 143, 144, 160, 191, 192, 194, 224, 237,
                                  240, 244, 245, 248}), 4),
      bytes |-> Fields(<<>>, Each({0, 147, 255}), 7),
      base64 |-> Fields(<<>>, Each({0, 36, 63, BadSymbol, Pad}), 6),
      \* Messages of every length up to 130, told apart byte by byte.
      md5 |-> [start |-> <<>>, pieces |-> [n \in 1..130 |-> {<<n>>}]] ]

MCInit ==
    \/ Start /\ Init /\ size = 0
    \/ subject = "sha1" /\ read = 0 /\ input = <<>> /\ Init

ReadInput == subject # "sha1" /\ Read /\ UNCHANGED vars

InputMessage ==
    /\ subject = "sha1"
    /\ \E byte \in Byte : byte = (IF Len(message) % 3 = 0 THEN 128 ELSE 0) /\ Input(byte)
    /\ UNCHANGED reading

EndMessage == subject = "sha1" /\ Result /\ UNCHANGED reading

MCNext == ReadInput \/ InputMessage \/ EndMessage

MCSpec == MCInit /\ [][MCNext]_<<reading, vars>>
=============================================================================
