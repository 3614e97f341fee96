---------------------------- MODULE MCTrailsChecks ----------------------------
(***************************************************************************)
(* Quotes: two swaps and two intents, the native asset under both its      *)
(* names and a token, on one chain, tolerances of 0.1 and 1 percent around *)
(* outputs where the division drops something, and around none.            *)
(* Recoveries: two assets, every reviewed balance up to two units, every   *)
(* envelope of at most two calls and some of three, one above the bound.   *)
(***************************************************************************)
EXTENDS TrailsChecks

CONSTANTS native, token, owner, elsewhere

MCSide(a) == [chain |-> 1, asset |-> a]
MCInputs ==
  {[from |-> MCSide(a), to |-> MCSide(b), amount |-> 1, bps |-> n] :
     a \in {"native", "alias", "token"}, b \in {"native", "token"}, n \in {10, 100}}
    \cup {[from |-> MCSide("native"), to |-> MCSide("token"), amount |-> 0, bps |-> 10],
          [from |-> MCSide("unknown"), to |-> MCSide("token"), amount |-> 1, bps |-> 10]}
MCPolicy == {<<1, "zero">>, <<1, "token">>}
MCOutputs == {0, 1, 99, 100, 101}
MCIntents == {"x", "y"}
MCSwapIds == {"s", "t"}

MCAssets == {native, token}
MCAmounts == 0 .. 2
MCCalls ==
  {Pay(to, n) : to \in {owner, elsewhere}, n \in {0, 1, 2}}
    \cup {Send(a, to, n) : a \in MCAssets, to \in {owner, elsewhere}, n \in {1, 2}}
    \cup {Sweep(owner, tokens, n) : tokens \in {<<>>, <<token>>, <<token, token>>, <<native>>},
                                    n \in BOOLEAN}
    \cup {Sweep(elsewhere, <<token>>, FALSE), Other}
MCEnvelopes == UNION {[1 .. n -> MCCalls] : n \in 0 .. 2}
                 \cup [1 .. 3 -> {Pay(owner, 1), Send(token, owner, 1)}]
===============================================================================
