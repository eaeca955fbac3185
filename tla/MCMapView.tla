---------------------------- MODULE MCMapView ----------------------------
EXTENDS MapView

Sim(p, state) == [id |-> p, real |-> FALSE, state |-> state, peers |-> {}]
Sybil(grafts) == [id |-> "sybil", real |-> FALSE, state |-> "attacker", peers |-> grafts]
Observer == [id |-> "observer", real |-> TRUE, state |-> "idle", peers |-> {}]

\* A pair of peers, which decode a message, meet an attacker and see it pruned; an observer in front of
\* them moves every index.
SmallScenes ==
  {[nodes |-> <<>>, mesh |-> {}],
   [nodes |-> <<Sim("a", "idle"), Sim("b", "idle")>>, mesh |-> {<<"a", "b">>}],
   [nodes |-> <<Sim("a", "idle"), Sim("b", "decoded"), Sybil({"a"})>>, mesh |-> {<<"a", "b">>, <<"a", "sybil">>}],
   [nodes |-> <<Observer, Sim("a", "idle"), Sim("b", "idle"), Sybil({})>>, mesh |-> {}]}
TwoEdgeLists == {{<<"a", "b">>}, {<<"b", "a">>, <<"a", "sybil">>}}
OneHop == {<<"a", "b">>}
=============================================================================
