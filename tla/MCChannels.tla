----------------------------- MODULE MCChannels -----------------------------
(* Channels on small instances.                                            *)
EXTENDS Channels

CONSTANTS ana, bob, team, hall, any

\* ana writes in the groups
Writer == [r \in Rooms |-> IF r \in Groups THEN ana ELSE r]
\* the peer binding comes after a more general one
SomeBindings ==
  <<[peer |-> any, channel |-> "slack", agent |-> "helper"],
    [peer |-> team, channel |-> "telegram", agent |-> "clerk"],
    [peer |-> ana, channel |-> any, agent |-> "friend"],
    [peer |-> any, channel |-> any, agent |-> "porter"]>>

Text(r, c, w) == [room |-> r, calls |-> c, words |-> w]
\* what is said in the hall, a guild that is not listed, calls somebody else
SomeTexts ==
  {Text(ana, "nobody", TRUE), Text(bob, "nobody", TRUE), Text(hall, "somebody", TRUE),
   Text(team, "nobody", TRUE), Text(team, "bot", TRUE)}
=============================================================================
