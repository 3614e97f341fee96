------------------------ MODULE WalletCredentialsProofs ------------------------
(***************************************************************************)
(* Theorems about the credentials of one wallet, for every set of key      *)
(* pairs and of wallets.                                                   *)
(*                                                                         *)
(* None of the properties is inductive.  That a second wallet is never     *)
(* asked for depends on what is durable when the handler stands before the *)
(* request (CreationInv); that a disabled wallet only revokes, on the      *)
(* steps a disabled wallet can reach (DisabledInv); that a key is not      *)
(* accepted when it is forgotten, on no authentication of that key being   *)
(* on its way once its expiry is recorded (KeyInv).                        *)
(***************************************************************************)
EXTENDS WalletCredentials, FiniteSetTheorems, TLAPS

\* The executor is free exactly when no handler stands anywhere.
HandlerInv == /\ (op = "idle") <=> (at = "idle")
              /\ at \notin {"idle", "ensure", "revoke", "drop"} => credential # None
              /\ at \in {"idle", "ensure", "commit", "using", "wallet", "create",
                         "revoke", "drop", "send"} => reply = "none"

CreationInv == /\ at = "create" => wallet = None /\ creating /\ asked = 0
               /\ at = "creating" => wallet = None /\ creating

DisabledInv == at \in {"commit", "completing", "using", "wallet", "create",
                       "creating", "send", "working"} => ~disabled

\* CompleteAuth of the key in use is on its way.
Authenticating == \E r \in wire : r.key = credential /\ r.method = "CompleteAuth"

KeyInv == /\ at = "commit" => ~dated /\ \A r \in wire : r.key # credential
          /\ at = "using" \/ (at = "completing" /\ reply # "none") \/ dated
               => ~Authenticating
          /\ at = "revoking" => dated
          /\ at = "revoking" /\ reply # "none" => ~Accepts(credential)
          /\ at = "drop" /\ credential # None /\ dated => ~Accepts(credential)

IInv == /\ TypeOK
        /\ OneCreation
        /\ CreationRemembered
        /\ HandlerInv
        /\ CreationInv
        /\ DisabledInv
        /\ KeyInv

-------------------------------------------------------------------------------
(* The strengthened invariant                                              *)

\* The state of a wallet that was never used satisfies it.
LEMMA InitIInv == Init => IInv
<1> SUFFICES ASSUME Init PROVE IInv
  OBVIOUS
<1>1. TypeOK
  BY DEF Init, TypeOK, Steps
<1>2. OneCreation /\ CreationRemembered
  BY DEF Init, OneCreation, CreationRemembered
<1>3. HandlerInv /\ CreationInv /\ DisabledInv
  BY DEF Init, HandlerInv, CreationInv, DisabledInv
<1>4. KeyInv
  BY DEF Init, KeyInv
<1> QED
  BY <1>1, <1>2, <1>3, <1>4 DEF IInv

\* Every step of a handler, of WaaS, of the clock and every crash keeps it.
LEMMA NextIInv == IInv /\ [Next]_vars => IInv'
<1> SUFFICES ASSUME IInv, [Next]_vars PROVE IInv'
  OBVIOUS
<1> USE NamesAssumption
    DEF IInv, TypeOK, Steps, Callers, Requests, Methods, OneCreation,
        CreationRemembered, HandlerInv, CreationInv, DisabledInv, KeyInv,
        Authenticating, Accepts, Goto, Finish, Request, Start, Free, durable,
        volatile, waas
<1>1. CASE Restore
  BY <1>1 DEF Restore
<1>2. CASE Use
  BY <1>2 DEF Use
<1>3. CASE Rotate
  BY <1>3 DEF Rotate
<1>4. CASE Disable
  BY <1>4 DEF Disable
<1>5. CASE Enable
  BY <1>5 DEF Enable
<1>6. CASE RefuseDisabled
  BY <1>6 DEF RefuseDisabled
<1>7. CASE Reuse
  BY <1>7 DEF Reuse, Reusable
<1>8. CASE Generate
  BY <1>8 DEF Generate, Unused
<1>9. CASE Commit
  BY <1>9 DEF Commit
<1>10. CASE ReadPages
  BY <1>10 DEF ReadPages
<1>11. CASE RefuseMismatch
  BY <1>11 DEF RefuseMismatch
<1>12. CASE UseWallet
  BY <1>12 DEF UseWallet
<1>13. CASE NoWalletYet
  BY <1>13 DEF NoWalletYet
<1>14. CASE AuthenticationFails
  BY <1>14 DEF AuthenticationFails
<1>15. CASE HasWallet
  BY <1>15 DEF HasWallet, Ensured
<1>16. CASE RefuseUncertain
  BY <1>16 DEF RefuseUncertain
<1>17. CASE Create
  BY <1>17 DEF Create
<1>18. CASE SendCreate
  BY <1>18 DEF SendCreate
<1>19. CASE Created
  BY <1>19 DEF Created, Ensured
<1>20. CASE CreateFails
  BY <1>20 DEF CreateFails
<1>21. CASE SkipRevoke
  BY <1>21 DEF SkipRevoke, Revocable
<1>22. CASE SendRevoke
  BY <1>22 DEF SendRevoke, Revocable
<1>23. CASE RevokeAnswered
  BY <1>23 DEF RevokeAnswered
<1>24. CASE RevokeFails
  BY <1>24 DEF RevokeFails
<1>25. CASE Drop
  BY <1>25 DEF Drop
<1>26. CASE SendWork
  BY <1>26 DEF SendWork
<1>27. CASE Reauthenticate
  BY <1>27 DEF Reauthenticate
<1>28. CASE WorkEnds
  BY <1>28 DEF WorkEnds
<1>29. CASE Crash
  BY <1>29 DEF Crash
<1>30. CASE OtherCreates
  BY <1>30 DEF OtherCreates
<1>31. CASE OtherRemoves
  BY <1>31 DEF OtherRemoves
<1>32. ASSUME NEW r \in Requests, WaasComplete(r) PROVE IInv'
  BY <1>32 DEF WaasComplete, Answer, Waits
<1>33. ASSUME NEW r \in Requests, WaasCreate(r) PROVE IInv'
  BY <1>33 DEF WaasCreate, Answer, Waits
<1>34. ASSUME NEW r \in Requests, WaasRevoke(r) PROVE IInv'
  BY <1>34 DEF WaasRevoke, Answer, Waits
<1>35. ASSUME NEW r \in Requests, WaasWork(r) PROVE IInv'
  BY <1>35 DEF WaasWork, Answer, Waits
<1>36. ASSUME NEW r \in Requests, WaasRefuse(r) PROVE IInv'
  BY <1>36 DEF WaasRefuse, Answer, Waits
<1>37. ASSUME NEW r \in Requests, Lose(r) PROVE IInv'
  BY <1>37 DEF Lose
<1>38. ASSUME NEW c \in Credentials, OtherRevokes(c) PROVE IInv'
  BY <1>38 DEF OtherRevokes
<1>39. ASSUME NEW c \in Credentials, Tick(c) PROVE IInv'
  BY <1>39 DEF Tick
<1>40. CASE UNCHANGED vars
  BY <1>40 DEF vars
<1> QED
  BY <1>1, <1>2, <1>3, <1>4, <1>5, <1>6, <1>7, <1>8, <1>9, <1>10, <1>11, <1>12,
     <1>13, <1>14, <1>15, <1>16, <1>17, <1>18, <1>19, <1>20, <1>21, <1>22,
     <1>23, <1>24, <1>25, <1>26, <1>27, <1>28, <1>29, <1>30, <1>31, <1>32,
     <1>33, <1>34, <1>35, <1>36, <1>37, <1>38, <1>39, <1>40
     DEF Next, Calls, Handler, Waas

\* The strengthened invariant holds in every state.
THEOREM IInvCorrect == Spec => []IInv
  BY InitIInv, NextIInv, PTL DEF Spec

\* Every variable keeps its type.
THEOREM TypeCorrect == Spec => []TypeOK
<1>1. IInv => TypeOK
  BY DEF IInv
<1> QED
  BY <1>1, IInvCorrect, PTL

-------------------------------------------------------------------------------
(* Creation                                                                *)

\* Whatever answers are lost and wherever the process stops, CreateWallet is
\* sent at most once for one identity.
THEOREM OneCreationCorrect == Spec => []OneCreation
<1>1. IInv => OneCreation
  BY DEF IInv
<1> QED
  BY <1>1, IInvCorrect, PTL

\* Once CreateWallet has left, the durable record says so until the wallet is
\* known.
THEOREM CreationRememberedCorrect == Spec => []CreationRemembered
<1>1. IInv => CreationRemembered
  BY DEF IInv
<1> QED
  BY <1>1, IInvCorrect, PTL

-------------------------------------------------------------------------------
(* The wallet                                                              *)

\* A set of at most one element that holds w holds nothing else.
LEMMA OnlyElement ==
  ASSUME NEW S, IsFiniteSet(S), Cardinality(S) <= 1, NEW w \in S, NEW v \in S
  PROVE  v = w
<1> SUFFICES ASSUME v # w PROVE FALSE
  OBVIOUS
<1>1. {w, v} \subseteq S
  OBVIOUS
<1>2. Cardinality({w, v}) <= Cardinality(S)
  BY <1>1, FS_Subset
<1>3. IsFiniteSet({w}) /\ Cardinality({w}) = 1
  BY FS_Singleton
<1>4. Cardinality({w} \cup {v}) = 2
  BY <1>3, FS_AddElement
<1>5. {w} \cup {v} = {w, v}
  OBVIOUS
<1>6. Cardinality(S) \in Nat
  BY FS_CardinalityType
<1> QED
  BY <1>2, <1>4, <1>5, <1>6

\* UseWallet binds no other wallet than the one that is known, and a creation
\* is only awaited while none is.
LEMMA StepKeepsWallet == IInv /\ [Next]_vars => [wallet # None => wallet' = wallet]_vars
<1> SUFFICES ASSUME IInv, Next, wallet # None PROVE wallet' = wallet
  OBVIOUS
<1>1. CASE UseWallet
  <2>1. PICK w \in listed : wallet' = w
    BY <1>1 DEF UseWallet
  <2>2. IsFiniteSet(listed) /\ Cardinality(listed) \in Nat
    BY NamesAssumption, FS_Subset, FS_CardinalityType DEF IInv, TypeOK
  <2>3. Cardinality(listed) <= 1 /\ wallet \in listed
    BY <1>1, <2>2 DEF UseWallet, Mismatch
  <2> QED
    BY <2>1, <2>2, <2>3, OnlyElement
<1>2. CASE Created
  BY <1>2 DEF Created, IInv, HandlerInv, CreationInv
<1>3. CASE ~UseWallet /\ ~Created
  BY <1>3
     DEF Next, Calls, Handler, Waas, Start, durable, Restore, Use, Rotate,
         Disable, Enable, RefuseDisabled, Reuse, Generate, Commit, ReadPages,
         RefuseMismatch, NoWalletYet, AuthenticationFails, HasWallet,
         RefuseUncertain, Create, SendCreate, CreateFails, SkipRevoke,
         SendRevoke, RevokeAnswered, RevokeFails, Drop, SendWork,
         Reauthenticate, WorkEnds, Crash, OtherCreates, OtherRemoves,
         WaasComplete, WaasCreate, WaasRevoke, WaasWork, WaasRefuse, Lose,
         OtherRevokes, Tick
<1> QED
  BY <1>1, <1>2, <1>3

\* The wallet of an identity never changes once it is known.
THEOREM WalletKeptCorrect == Spec => WalletKept
<1>1. Spec => [][wallet # None => wallet' = wallet]_vars
  BY IInvCorrect, StepKeepsWallet, PTL DEF Spec
<1> QED
  BY <1>1 DEF WalletKept

-------------------------------------------------------------------------------
(* Disabling and revoking                                                  *)

\* The requests a disabled wallet's handler sends.
LEMMA StepOnlyRevokes ==
  IInv /\ [Next]_vars =>
    [disabled /\ disabled' =>
       \A r \in wire' \ wire : r.method = "RevokeCredential"]_vars
<1> SUFFICES ASSUME IInv, Next, disabled
             PROVE  \A r \in wire' \ wire : r.method = "RevokeCredential"
  OBVIOUS
<1>1. at \notin {"commit", "create", "send"}
  BY DEF IInv, DisabledInv
<1>2. CASE SendRevoke
  BY <1>2 DEF SendRevoke, Request
<1>3. CASE ~SendRevoke
  <2>1. wire' \subseteq wire
    BY <1>1, <1>3
       DEF Next, Calls, Handler, Waas, Start, Restore, Use, Rotate,
           Disable, Enable, RefuseDisabled, Reuse, Generate, Commit, ReadPages,
           RefuseMismatch, UseWallet, NoWalletYet, AuthenticationFails,
           HasWallet, RefuseUncertain, Create, SendCreate, Created, CreateFails,
           SkipRevoke, RevokeAnswered, RevokeFails, Drop, SendWork,
           Reauthenticate, WorkEnds, Crash, OtherCreates, OtherRemoves,
           WaasComplete, WaasCreate, WaasRevoke, WaasWork, WaasRefuse, Lose,
           OtherRevokes, Tick
  <2> QED
    BY <2>1
<1> QED
  BY <1>2, <1>3

\* A disabled wallet signs no request but the revocation of its own key.
THEOREM DisabledOnlyRevokesCorrect == Spec => DisabledOnlyRevokes
<1>1. Spec => [][disabled /\ disabled' =>
                   \A r \in wire' \ wire : r.method = "RevokeCredential"]_vars
  BY IInvCorrect, StepOnlyRevokes, PTL DEF Spec
<1> QED
  BY <1>1 DEF DisabledOnlyRevokes

\* Only enable ends a disabled state, and it forgets the key by then.
LEMMA EnabledAtDrop == Next /\ disabled /\ ~disabled' => at = "drop"
  BY DEF Next, Calls, Handler, Waas, Start, durable, Restore, Use, Rotate,
         Disable, Enable, RefuseDisabled, Reuse, Generate, Commit, ReadPages,
         RefuseMismatch, UseWallet, NoWalletYet, AuthenticationFails,
         HasWallet, RefuseUncertain, Create, SendCreate, Created, CreateFails,
         SkipRevoke, SendRevoke, RevokeAnswered, RevokeFails, Drop, SendWork,
         Reauthenticate, WorkEnds, Crash, OtherCreates, OtherRemoves,
         WaasComplete, WaasCreate, WaasRevoke, WaasWork, WaasRefuse, Lose,
         OtherRevokes, Tick

\* A key whose expiry is recorded is not accepted any more when it is forgotten
\* by rotate, disable or enable.
THEOREM RetainedKeyRevokedCorrect == Spec => RetainedKeyRevoked
<1>1. IInv /\ [Next]_vars =>
        [(at = "drop" /\ credential' = None) \/ (disabled /\ ~disabled')
           => (credential # None /\ dated => ~Accepts(credential))]_vars
  BY EnabledAtDrop DEF IInv, KeyInv
<1>2. Spec => [][(at = "drop" /\ credential' = None) \/ (disabled /\ ~disabled')
                   => (credential # None /\ dated => ~Accepts(credential))]_vars
  BY <1>1, IInvCorrect, PTL DEF Spec
<1> QED
  BY <1>2 DEF RetainedKeyRevoked
===============================================================================
