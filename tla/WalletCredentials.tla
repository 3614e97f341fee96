-------------------------- MODULE WalletCredentials --------------------------
(***************************************************************************)
(* The life of one wallet and of the credentials it signs requests with:   *)
(* ensure, rotate, setDisabled and the reauthentication of activeCall      *)
(* (packages/server-wallet-sdk/src/client.ts).                             *)
(*                                                                         *)
(* A handler runs alone (the executor) and is split where it awaits a      *)
(* remote answer.  The state it works on is saved before every request, so *)
(* what it holds in memory is what a restart finds, except for the wallets *)
(* an authentication listed.  A request outlives the handler that gave up  *)
(* on it: WaaS may handle it later, or never.                              *)
(*                                                                         *)
(* Two equal requests that are on their way together (only "Work" and the  *)
(* revocation of one key can be) count as one: WaaS treats both alike.     *)
(*                                                                         *)
(* Bounds.  A generated credential takes an identifier of Credentials that *)
(* nothing refers to any more; WaaS gives a new wallet an identifier of    *)
(* Wallets that is not in use.  The wallets of Others are created for the  *)
(* same identity by somebody else.                                         *)
(***************************************************************************)
EXTENDS Naturals, FiniteSets

CONSTANTS Credentials, Wallets, Others, None,
          Calling       \* the public methods the host calls

Callers  == {"restore", "rotate", "disable", "enable", "use"}

ASSUME NamesAssumption == /\ Calling \subseteq Callers
                          /\ Others \subseteq Wallets
                          /\ None \notin Credentials \cup Wallets
                          /\ IsFiniteSet(Wallets)

VARIABLES
  wallet,               \* durable: State.wallet
  creating,             \* durable: State.creating
  disabled,             \* durable: State.disabled
  credential,           \* durable: State.credential
  dated,                \* durable: credential.expiresAt is set
  op,                   \* volatile: the method the executor runs
  at,                   \* volatile: where it stands
  retried,              \* volatile: activeCall is in its second attempt
  listed,               \* volatile: the wallets this authentication saw
  reply,                \* the answer on its way to the waiting handler
  status,               \* WaaS: what it knows of a credential
  age,                  \* the clock against a credential's expiry
  wallets,              \* WaaS: the wallets of this identity
  wire,                 \* requests sent and not yet handled
  asked                 \* observation: CreateWallet requests sent so far

durable  == <<wallet, creating, disabled, credential, dated>>
volatile == <<op, at, retried, listed, reply>>
waas     == <<status, age, wallets>>
vars     == <<durable, volatile, waas, wire, asked>>

-------------------------------------------------------------------------------
(* Types                                                                   *)

Methods  == {"CompleteAuth", "CreateWallet", "RevokeCredential", "Work"}
Requests == [method : Methods, key : Credentials]
Steps    == {"idle", "ensure", "commit", "completing", "using",
             "wallet", "create", "creating", "revoke", "revoking", "drop",
             "send", "working"}

TypeOK ==
  /\ wallet \in Wallets \cup {None}
  /\ creating \in BOOLEAN
  /\ disabled \in BOOLEAN
  /\ credential \in Credentials \cup {None}
  /\ dated \in BOOLEAN
  /\ op \in Callers \cup {"idle"}
  /\ at \in Steps
  /\ retried \in BOOLEAN
  /\ listed \subseteq Wallets
  /\ reply \in {"none", "ok", "refused"} \cup Wallets
  /\ status \in [Credentials -> {"unknown", "live", "revoked"}]
  /\ age \in [Credentials -> {"fresh", "closing", "passed"}]
  /\ wallets \subseteq Wallets
  /\ wire \subseteq Requests
  /\ asked \in Nat

Init ==
  /\ wallet = None /\ creating = FALSE /\ disabled = FALSE
  /\ credential = None /\ dated = FALSE
  /\ op = "idle" /\ at = "idle" /\ retried = FALSE
  /\ listed = {} /\ reply = "none"
  /\ status = [c \in Credentials |-> "unknown"]
  /\ age = [c \in Credentials |-> "fresh"]
  /\ wallets = {} /\ wire = {} /\ asked = 0

-------------------------------------------------------------------------------
(* Helpers                                                                 *)

Free == op = "idle"

\* WaaS acts on requests that credential c signed.
Accepts(c) == status[c] = "live" /\ age[c] # "passed"

\* A name for the next key pair: nothing is left of its last use.
Unused == {c \in Credentials : /\ c # credential
                               /\ ~Accepts(c)
                               /\ \A r \in wire : r.key # c}

\* ensure() keeps a credential with a recorded expiry more than a minute
\* away, unless a creation is unresolved.
Reusable == /\ credential # None /\ dated
            /\ age[credential] = "fresh"
            /\ ~(creating /\ wallet = None)

\* revoke() asks WaaS only when an expiry is recorded and has not passed.
Revocable == credential # None /\ dated /\ age[credential] # "passed"

Goto(s) == at' = s /\ UNCHANGED <<op, retried>>

\* The method returns or throws.
Finish == /\ op' = "idle" /\ at' = "idle" /\ retried' = FALSE
          /\ listed' = {} /\ reply' = "none"

\* call(): the request leaves once the state has been saved.
Request(m) == wire' = wire \cup {[method |-> m, key |-> credential]}

\* ensure() is done; the method that called it goes on.
Ensured == IF op = "use" THEN Goto("send") /\ listed' = {} /\ reply' = "none"
                         ELSE Finish

-------------------------------------------------------------------------------
(* The public methods                                                      *)

Start(m, s) == /\ Free /\ m \in Calling
               /\ op' = m /\ at' = s
               /\ UNCHANGED <<retried, listed, reply, waas, wire, asked>>

Restore == Start("restore", "ensure") /\ UNCHANGED durable

\* A method that makes a request through activeCall.
Use == Start("use", "ensure") /\ UNCHANGED durable

Rotate == ~disabled /\ Start("rotate", "revoke") /\ UNCHANGED durable

\* Mutant: disabling does not wait for the method that runs.
DisableAtOnce == /\ disabled' = TRUE
                 /\ UNCHANGED <<wallet, creating, credential, dated, volatile,
                                waas, wire, asked>>

\* Disabling is persisted before any request.
Disable == /\ Start("disable", "revoke")
           /\ disabled' = TRUE
           /\ UNCHANGED <<wallet, creating, credential, dated>>

Enable == Start("enable", "revoke") /\ UNCHANGED durable

-------------------------------------------------------------------------------
(* ensure                                                                  *)

RefuseDisabled == /\ at = "ensure" /\ disabled
                  /\ Finish
                  /\ UNCHANGED <<durable, waas, wire, asked>>

Reuse == /\ at = "ensure" /\ ~disabled /\ Reusable
         /\ Goto("wallet")
         /\ UNCHANGED <<durable, listed, reply, waas, wire, asked>>

\* Mutant: an uncertain creation is refused before the wallets are listed.
GenerateUnlessCreating ==
  /\ at = "ensure" /\ ~disabled /\ ~Reusable /\ ~creating
  /\ \E c \in Unused :
       /\ credential' = c
       /\ status' = [status EXCEPT ![c] = "unknown"]
       /\ age' = [age EXCEPT ![c] = "fresh"]
  /\ dated' = FALSE
  /\ Goto("commit")
  /\ UNCHANGED <<wallet, creating, disabled, listed, reply, wallets, wire,
                 asked>>

\* A new key pair is saved before it is used; the old one is forgotten.
Generate == /\ at = "ensure" /\ ~disabled /\ ~Reusable
            /\ \E c \in Unused :
                 /\ credential' = c
                 /\ status' = [status EXCEPT ![c] = "unknown"]
                 /\ age' = [age EXCEPT ![c] = "fresh"]
            /\ dated' = FALSE
            /\ Goto("commit")
            /\ UNCHANGED <<wallet, creating, disabled, listed, reply, wallets,
                           wire, asked>>

\* The token provider and CommitVerifier answered; CompleteAuth leaves.
Commit == /\ at = "commit"
          /\ Request("CompleteAuth")
          /\ Goto("completing")
          /\ UNCHANGED <<durable, listed, reply, waas, asked>>

\* CompleteAuth answered and every page was read: pages read later may show
\* wallets that the first did not.
ReadPages == /\ at = "completing" /\ reply = "ok"
             /\ \E more \in SUBSET wallets : listed' = listed \cup more
             /\ Goto("using")
             /\ reply' = "none"
             /\ UNCHANGED <<durable, waas, wire, asked>>

\* Mutant: only a second wallet is a mismatch.
Mismatched == Cardinality(listed) > 1

\* More than one wallet, or not the one this identity is known to have.
Mismatch == Cardinality(listed) > 1 \/ (wallet # None /\ wallet \notin listed)

RefuseMismatch == /\ at = "using" /\ Mismatch
                  /\ Finish
                  /\ UNCHANGED <<durable, waas, wire, asked>>

\* UseWallet bound the one wallet to the credential.
UseWallet == /\ at = "using" /\ ~Mismatch
             /\ \E w \in listed : wallet' = w
             /\ creating' = FALSE /\ dated' = TRUE
             /\ Goto("wallet") /\ listed' = {}
             /\ UNCHANGED <<disabled, credential, reply, waas, wire, asked>>

NoWalletYet == /\ at = "using" /\ ~Mismatch /\ listed = {}
               /\ dated' = TRUE
               /\ Goto("wallet")
               /\ UNCHANGED <<wallet, creating, disabled, credential, listed,
                              reply, waas, wire, asked>>

\* A request of the authentication failed: the caller gets the error.
AuthenticationFails == /\ at \in {"commit", "completing", "using"}
                       /\ Finish
                       /\ UNCHANGED <<durable, waas, wire, asked>>

HasWallet == /\ at = "wallet" /\ wallet # None
             /\ Ensured
             /\ UNCHANGED <<durable, waas, wire, asked>>

\* CREATION_UNCERTAIN: an earlier CreateWallet may still take effect.
RefuseUncertain == /\ at = "wallet" /\ wallet = None /\ creating
                   /\ Finish
                   /\ UNCHANGED <<durable, waas, wire, asked>>

\* Mutant: an uncertain creation is tried again.
CreateAgain == /\ at = "wallet" /\ wallet = None
               /\ creating' = TRUE
               /\ Goto("create")
               /\ UNCHANGED <<wallet, disabled, credential, dated, listed, reply,
                              waas, wire, asked>>

Create == /\ at = "wallet" /\ wallet = None /\ ~creating
          /\ creating' = TRUE
          /\ Goto("create")
          /\ UNCHANGED <<wallet, disabled, credential, dated, listed, reply,
                         waas, wire, asked>>

SendCreate == /\ at = "create"
              /\ Request("CreateWallet")
              /\ asked' = asked + 1
              /\ Goto("creating")
              /\ UNCHANGED <<durable, listed, reply, waas>>

Created == /\ at = "creating" /\ reply \in Wallets
           /\ wallet' = reply
           /\ creating' = FALSE
           /\ Ensured
           /\ UNCHANGED <<disabled, credential, dated, waas, wire, asked>>

\* An error, an answer that was lost: the wallets are listed again next time.
CreateFails == /\ at = "creating"
               /\ dated' = FALSE
               /\ Finish
               /\ UNCHANGED <<wallet, creating, disabled, credential, waas, wire,
                              asked>>

-------------------------------------------------------------------------------
(* revoke                                                                  *)

\* Mutant: the key is dropped whatever RevokeCredential answered.
RevokeOrNot == /\ at = "revoking"
               /\ Goto("drop")
               /\ reply' = "none"
               /\ UNCHANGED <<durable, listed, waas, wire, asked>>

\* No recorded expiry, or it has passed: nothing to ask WaaS for.
SkipRevoke == /\ at = "revoke"
              /\ ~Revocable
              /\ Goto("drop")
              /\ UNCHANGED <<durable, listed, reply, waas, wire, asked>>

SendRevoke == /\ at = "revoke"
              /\ Revocable
              /\ Request("RevokeCredential")
              /\ Goto("revoking")
              /\ UNCHANGED <<durable, listed, reply, waas, asked>>

\* Revoked, or refused because WaaS does not accept the key anyway.
RevokeAnswered == /\ at = "revoking" /\ reply \in {"ok", "refused"}
                  /\ Goto("drop")
                  /\ reply' = "none"
                  /\ UNCHANGED <<durable, listed, waas, wire, asked>>

\* Any other error: the key is kept, and a disabled wallet stays disabled.
RevokeFails == /\ at = "revoking"
               /\ Finish
               /\ UNCHANGED <<durable, waas, wire, asked>>

\* The key is forgotten.  enable saves that the wallet is enabled only now.
Drop == /\ at = "drop"
        /\ credential' = None /\ dated' = FALSE
        /\ \/ op = "disable" /\ Finish /\ UNCHANGED disabled
           \/ /\ op = "rotate" /\ Goto("ensure")
              /\ UNCHANGED <<disabled, listed, reply>>
           \/ /\ op = "enable" /\ Goto("ensure") /\ disabled' = FALSE
              /\ UNCHANGED <<listed, reply>>
        /\ UNCHANGED <<wallet, creating, waas, wire, asked>>

-------------------------------------------------------------------------------
(* activeCall                                                              *)

SendWork == /\ at = "send"
            /\ Request("Work")
            /\ Goto("working")
            /\ UNCHANGED <<durable, listed, reply, waas, asked>>

\* Unknown, expired or revoked key: one more attempt with a new one.
Reauthenticate == /\ at = "working" /\ reply = "refused" /\ ~retried
                  /\ credential' = None /\ dated' = FALSE
                  /\ at' = "ensure" /\ retried' = TRUE /\ reply' = "none"
                  /\ UNCHANGED <<wallet, creating, disabled, op, listed, waas,
                                 wire, asked>>

\* The answer, a second refusal, a timeout or another error.
WorkEnds == /\ at = "working"
            /\ Finish
            /\ UNCHANGED <<durable, waas, wire, asked>>

\* The process stops; what was saved stays.
Crash == /\ ~Free
         /\ Finish
         /\ UNCHANGED <<durable, waas, wire, asked>>

-------------------------------------------------------------------------------
(* WaaS, known only from how client.ts uses it, and the clock              *)

Waits(r) == /\ r.key = credential
            /\ r.method = CASE at = "completing" -> "CompleteAuth"
                            [] at = "creating" -> "CreateWallet"
                            [] at = "revoking" -> "RevokeCredential"
                            [] at = "working" -> "Work"
                            [] OTHER -> "none"

Answer(r, a) == reply' = IF Waits(r) THEN a ELSE reply

WaasComplete(r) ==
  /\ r \in wire /\ r.method = "CompleteAuth"
  /\ wire' = wire \ {r}
  /\ status' = [status EXCEPT ![r.key] = "live"]
  /\ Answer(r, "ok")
  /\ listed' = IF Waits(r) THEN wallets ELSE listed
  /\ UNCHANGED <<durable, op, at, retried, age, wallets, asked>>

\* WaaS is not assumed to refuse a second wallet.
WaasCreate(r) ==
  /\ r \in wire /\ r.method = "CreateWallet" /\ Accepts(r.key)
  /\ wire' = wire \ {r}
  /\ \E w \in Wallets \ (wallets \cup Others) :
       wallets' = wallets \cup {w} /\ Answer(r, w)
  /\ UNCHANGED <<durable, op, at, retried, listed, status, age, asked>>

WaasRevoke(r) ==
  /\ r \in wire /\ r.method = "RevokeCredential" /\ Accepts(r.key)
  /\ wire' = wire \ {r}
  /\ status' = [status EXCEPT ![r.key] = "revoked"]
  /\ Answer(r, "ok")
  /\ UNCHANGED <<durable, op, at, retried, listed, age, wallets, asked>>

WaasWork(r) ==
  /\ r \in wire /\ r.method = "Work" /\ Accepts(r.key)
  /\ wire' = wire \ {r}
  /\ Answer(r, "ok")
  /\ UNCHANGED <<durable, op, at, retried, listed, waas, asked>>

WaasRefuse(r) ==
  /\ r \in wire /\ r.method # "CompleteAuth" /\ ~Accepts(r.key)
  /\ wire' = wire \ {r}
  /\ Answer(r, "refused")
  /\ UNCHANGED <<durable, op, at, retried, listed, waas, asked>>

Lose(r) == /\ r \in wire
           /\ wire' = wire \ {r}
           /\ UNCHANGED <<durable, volatile, waas, asked>>

\* Somebody else creates a wallet for the identity, or takes it away again.
OtherCreates == /\ \E w \in Others \ wallets : wallets' = wallets \cup {w}
                /\ UNCHANGED <<durable, volatile, status, age, wire, asked>>

OtherRemoves == /\ \E w \in Others \cap wallets : wallets' = wallets \ {w}
                /\ UNCHANGED <<durable, volatile, status, age, wire, asked>>

\* The key is revoked from elsewhere.
OtherRevokes(c) == /\ status[c] = "live"
                   /\ status' = [status EXCEPT ![c] = "revoked"]
                   /\ UNCHANGED <<durable, volatile, age, wallets, wire, asked>>

Tick(c) == /\ status[c] # "unknown" /\ age[c] # "passed"
           /\ age' = [age EXCEPT ![c] =
                        IF @ = "fresh" THEN "closing" ELSE "passed"]
           /\ UNCHANGED <<durable, volatile, status, wallets, wire, asked>>

-------------------------------------------------------------------------------
Calls == Restore \/ Use \/ Rotate \/ Disable \/ Enable

Handler ==
  \/ RefuseDisabled \/ Reuse \/ Generate \/ Commit
  \/ ReadPages \/ RefuseMismatch \/ UseWallet \/ NoWalletYet
  \/ AuthenticationFails \/ HasWallet \/ RefuseUncertain \/ Create
  \/ SendCreate \/ Created \/ CreateFails \/ SkipRevoke \/ SendRevoke
  \/ RevokeAnswered \/ RevokeFails \/ Drop \/ SendWork \/ Reauthenticate
  \/ WorkEnds

Waas(r) == \/ WaasComplete(r) \/ WaasCreate(r) \/ WaasRevoke(r)
           \/ WaasWork(r) \/ WaasRefuse(r) \/ Lose(r)

Next == \/ Calls \/ Handler \/ Crash \/ OtherCreates \/ OtherRemoves
        \/ \E r \in Requests : Waas(r)
        \/ \E c \in Credentials : OtherRevokes(c) \/ Tick(c)

Spec == Init /\ [][Next]_vars

Timely(r) == Waits(r) /\ WaasComplete(r)

\* Every await of a method ends, keys expire, and a request that nobody
\* handles is gone at some point.  The host keeps calling an enabled wallet,
\* and no stage of an authentication fails, or is cut short by a restart,
\* every time it is reached.
Fairness ==
  /\ WF_vars(Handler)
  /\ WF_vars(\E c \in Credentials : Tick(c))
  /\ WF_vars(\E r \in Requests : Lose(r))
  /\ SF_vars(~disabled /\ Restore)
  /\ SF_vars(Generate)
  /\ SF_vars(Commit)
  /\ SF_vars(\E r \in Requests : Timely(r))
  /\ SF_vars(ReadPages)
  /\ SF_vars(UseWallet)

LiveSpec == Spec /\ Fairness

-------------------------------------------------------------------------------
(* Properties                                                              *)

\* Whatever answers are lost and wherever the process stops, one identity
\* asks for a wallet at most once: a replacement is never created (ensure).
OneCreation == asked <= 1

\* A restart knows of every creation that may have taken effect.
CreationRemembered == asked > 0 => creating \/ wallet # None

\* A key whose expiry is recorded is not accepted by WaaS any more when
\* rotate, disable or enable forgets it, and when enabling becomes durable,
\* although revocations fail, are lost, and processes stop (revoke).
RetainedKeyRevoked ==
  [][(at = "drop" /\ credential' = None) \/ (disabled /\ ~disabled')
       => (credential # None /\ dated => ~Accepts(credential))]_vars

\* The documented, stronger form: rotate, disable and enable revoke the
\* credential they hold before they forget it.
NoLiveKeyDropped ==
  [][at = "drop" /\ credential # None /\ credential' = None
       => ~Accepts(credential)]_vars

\* The wallet of an identity never changes once it is known, whatever WaaS
\* lists at a later authentication.
WalletKept == [][wallet # None => wallet' = wallet]_vars

\* A disabled wallet signs no request but the revocation of its own key.
DisabledOnlyRevokes ==
  [][disabled /\ disabled' =>
       \A r \in wire' \ wire : r.method = "RevokeCredential"]_vars

\* A wallet that WaaS created, although its answer never came, is found and
\* adopted by a later authentication, unless the wallet stays disabled, or
\* somebody else creates another or removes it.
Only == Cardinality(wallets) = 1
CreatedIsAdopted == []<>(~disabled) => (Only ~> ~Only \/ wallet # None)
===============================================================================
