------------------------- MODULE MCStreamTransport -------------------------
(***************************************************************************)
(* Small instances of StreamTransport.                                     *)
(***************************************************************************)
EXTENDS StreamTransport

CONSTANTS
  a, b,   \* peers
  c1, c2, \* connection IDs
  t       \* a text without a mark

\* An error text or an address, with every mark in it.
Marked == <<Text(t), Dot, Comma, Semi>>

\* Two requests for each protocol.  A nil witness selector is written too.
MCRequests ==
  [connect      |-> {<<c1, a, b, "Sender">>, <<c2, b, a, "nil">>},
   witness      |-> {<<c1, a, b, "Receiver">>, <<c2, b, a, "Sender">>},
   peers        |-> {<<1>>, <<2>>},
   notification |-> {<<c1, a>>, <<c2, b>>},
   close        |-> {<<c1>>, <<c2>>}]

\* The handlers' answers: accepted, refused for two reasons, failed with an
\* error and with one that has no text; no peers, and two peers with no and with
\* two addresses.
MCAnswers ==
  LET Accepted == <<c1, <<>>, TRUE, <<>>>>
      Refused == <<c1, <<>>, FALSE, <<Marked, <<Text(t)>>>>>>
      Erred == <<c2, <<Marked>>, FALSE, <<>>>>
      Blank == <<c2, <<<<>>>>, FALSE, <<>>>>
      Peers == <<<<a, <<>>>>, <<b, <<Marked, <<Text(t)>>>>>>>>
  IN  [connect |-> {Accepted, Erred, Blank},
       witness |-> {Refused},
       peers   |-> {<<<<>>>>, <<Peers>>}]

\* The streams are interchangeable.
Interchangeable == Permutations(Stream)
=============================================================================
