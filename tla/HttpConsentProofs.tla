------------------------- MODULE HttpConsentProofs -------------------------
(***************************************************************************)
(* Theorems about HttpConsent, for every set of consent ids.               *)
(*                                                                         *)
(* None of the three invariants is inductive by itself.  That a grant is   *)
(* the answer taken needs the entry's event and flag to agree with the     *)
(* answers acknowledged (EntryIsTheAnswer); that no second answer is taken *)
(* after the return needs the table to be exactly the calls in flight.     *)
(***************************************************************************)
EXTENDS HttpConsent, TLAPS

(* The entry of a call holds the one answer taken, if one was taken. *)
EntryIsTheAnswer ==
    \A c \in Calls : accepted[c] = IF isSet[c] THEN <<allow[c]>> ELSE << >>

(* An event is set only once its id was told to a client, wait() returns   *)
(* True only when it is set, and True is returned only for an allow.       *)
AskerKnows ==
    \A c \in Calls :
        /\ isSet[c] => asker[c] \notin {"idle", "registered"}
        /\ asker[c] = "answered" => isSet[c]
        /\ asker[c] = "granted" => isSet[c] /\ allow[c]

IInv == TypeOK /\ TableIsInFlight /\ EntryIsTheAnswer /\ AskerKnows

(* The fresh broker satisfies the inductive invariant. *)
LEMMA InitIInv == Init => IInv
  BY DEF Init, IInv, TypeOK, TableIsInFlight, EntryIsTheAnswer, AskerKnows,
         Decided

(* Every step of request() and resolve() preserves the inductive invariant. *)
LEMMA NextIInv == IInv /\ [Next]_vars => IInv'
<1> SUFFICES ASSUME IInv, [Next]_vars PROVE IInv'
  OBVIOUS
<1> USE DEF IInv, TypeOK, TableIsInFlight, EntryIsTheAnswer, AskerKnows,
            Decided
<1>1. ASSUME NEW c \in Calls, Register(c) PROVE IInv'
  BY <1>1 DEF Register, Goto
<1>2. ASSUME NEW c \in Calls, Emit(c) PROVE IInv'
  BY <1>2 DEF Emit, Goto
<1>3. ASSUME NEW c \in Calls, Wake(c) PROVE IInv'
  BY <1>3 DEF Wake, Goto
<1>4. ASSUME NEW c \in Calls, Expire(c) PROVE IInv'
  BY <1>4 DEF Expire, TimesOut, Goto
<1>5. ASSUME NEW c \in Calls, Return(c) PROVE IInv'
  BY <1>5 DEF Return, Verdict, Forgotten
<1>6. ASSUME NEW c \in Calls, NEW answer \in BOOLEAN, Resolve(c, answer)
      PROVE  IInv'
  <2>1. c \in pending /\ ~isSet[c] /\ asker[c] \notin {"idle", "registered"}
    BY <1>6 DEF Resolve, Unresolved
  <2>2. accepted' = [accepted EXCEPT ![c] = <<answer>>]
    <3>1. accepted[c] = << >>
      BY <2>1
    <3>2. Append(accepted[c], answer) = <<answer>>
      BY <3>1
    <3> QED
      BY <1>6, <3>2 DEF Resolve
  <2>3. TypeOK'
    <3>1. <<answer>> \in {<<TRUE>>, <<FALSE>>}
      OBVIOUS
    <3> QED
      BY <1>6, <2>2, <3>1 DEF Resolve
  <2>4. /\ allow' = [allow EXCEPT ![c] = answer]
        /\ isSet' = [isSet EXCEPT ![c] = TRUE]
        /\ asker' = asker
        /\ pending' = pending
    BY <1>6 DEF Resolve
  <2>5. TableIsInFlight' /\ EntryIsTheAnswer' /\ AskerKnows'
    BY <2>1, <2>2, <2>4
  <2> QED
    BY <2>3, <2>5
<1>7. CASE UNCHANGED vars
  BY <1>7 DEF vars
<1> QED
  BY <1>1, <1>2, <1>3, <1>4, <1>5, <1>6, <1>7
     DEF Next, RequestStep, AllDecided

(* The inductive invariant holds in every state of the broker. *)
THEOREM SpecIInv == Spec => []IInv
  BY InitIInv, NextIInv, PTL DEF Spec

(* At most one client is told that its answer to a question was taken, and *)
(* every variable keeps its type: resolve()'s is_set() test.               *)
THEOREM SpecTypeOK == Spec => []TypeOK
  BY SpecIInv, PTL DEF IInv

(* The table holds exactly the questions whose request() has not returned: *)
(* request()'s insertion and its finally clause.                           *)
THEOREM SpecTableIsInFlight == Spec => []TableIsInFlight
  BY SpecIInv, PTL DEF IInv

(* The three strengthenings give the safety property of a grant. *)
LEMMA IInvGrant == IInv => GrantIsTheAnswer
  BY DEF IInv, TypeOK, EntryIsTheAnswer, AskerKnows, GrantIsTheAnswer

(* request() returns True only if the answer taken for its id is allow. *)
THEOREM SpecGrantIsTheAnswer == Spec => []GrantIsTheAnswer
  BY SpecIInv, IInvGrant, PTL

-----------------------------------------------------------------------------
(* Refinement.                                                             *)

(* In the fresh broker no question is asked. *)
LEMMA InitPromise == Init => Promise!Init
  BY DEF Init, Promise!Init, Outcome

(* A step of one call leaves the outcomes of the other calls alone. *)
LEMMA OthersKeepTheirOutcome ==
  ASSUME IInv, NEW c \in Calls,
         \A d \in Calls \ {c} :
            asker'[d] = asker[d] /\ isSet'[d] = isSet[d] /\ allow'[d] = allow[d]
  PROVE  [d \in Calls |-> Outcome(d)]'
            = [[d \in Calls |-> Outcome(d)] EXCEPT ![c] = Outcome(c)']
  BY DEF Outcome

(* Every step decides one question in the way the abstract broker may, or  *)
(* changes no outcome: only Register, Expire and Resolve change one.       *)
LEMMA NextPromise ==
  IInv /\ [Next]_vars => [Promise!Next]_([c \in Calls |-> Outcome(c)])
<1> SUFFICES ASSUME IInv, [Next]_vars
             PROVE  [Promise!Next]_([c \in Calls |-> Outcome(c)])
  OBVIOUS
<1> USE DEF IInv, TypeOK, AskerKnows
<1> DEFINE out == [c \in Calls |-> Outcome(c)]
<1>1. ASSUME NEW c \in Calls, Register(c) PROVE Promise!Ask(c)
  <2>1. out' = [out EXCEPT ![c] = Outcome(c)']
    BY <1>1, OthersKeepTheirOutcome DEF Register, Goto
  <2>2. Outcome(c) = "unasked" /\ Outcome(c)' = "open"
    BY <1>1 DEF Register, Goto, Outcome
  <2> QED
    BY <2>1, <2>2 DEF Promise!Ask, Promise!Becomes
<1>2. ASSUME NEW c \in Calls, Expire(c) PROVE Promise!Deny(c)
  <2>1. out' = [out EXCEPT ![c] = Outcome(c)']
    BY <1>2, OthersKeepTheirOutcome DEF Expire, Goto
  <2>2. Outcome(c) = "open" /\ Outcome(c)' = "denied"
    BY <1>2 DEF Expire, TimesOut, Goto, Outcome
  <2> QED
    BY <2>1, <2>2 DEF Promise!Deny, Promise!Becomes
<1>3. ASSUME NEW c \in Calls, NEW answer \in BOOLEAN, Resolve(c, answer)
      PROVE  Promise!Allow(c) \/ Promise!Deny(c) \/ out' = out
  <2>1. out' = [out EXCEPT ![c] = Outcome(c)']
    BY <1>3, OthersKeepTheirOutcome DEF Resolve
  <2>2. /\ ~isSet[c] /\ isSet'[c] /\ allow'[c] = answer
        /\ asker'[c] = asker[c]
        /\ asker[c] \in {"waiting", "expired"}
    BY <1>3 DEF Resolve, Unresolved, TableIsInFlight, Decided
  <2>3. CASE asker[c] = "expired"
    <3>1. Outcome(c)' = Outcome(c)
      BY <2>2, <2>3 DEF Outcome
    <3> QED
      BY <2>1, <3>1
  <2>4. CASE asker[c] = "waiting"
    <3>1. /\ Outcome(c) = "open"
          /\ Outcome(c)' = IF answer THEN "allowed" ELSE "denied"
      BY <2>2, <2>4 DEF Outcome
    <3> QED
      BY <2>1, <3>1 DEF Promise!Allow, Promise!Deny, Promise!Becomes
  <2> QED
    BY <2>2, <2>3, <2>4
<1>4. ASSUME NEW c \in Calls, Emit(c) \/ Wake(c) \/ Return(c) PROVE out' = out
  <2>1. out' = [out EXCEPT ![c] = Outcome(c)']
    BY <1>4, OthersKeepTheirOutcome DEF Emit, Wake, Return, Goto
  <2>2. Outcome(c)' = Outcome(c)
    BY <1>4 DEF Emit, Wake, Return, Verdict, Goto, Outcome
  <2> QED
    BY <2>1, <2>2
<1>5. ASSUME UNCHANGED vars PROVE out' = out
  BY <1>5 DEF vars, Outcome
<1> QED
  BY <1>1, <1>2, <1>3, <1>4, <1>5
     DEF Next, RequestStep, AllDecided, Promise!Next

(* The broker implements the consent manager's promise: a question is      *)
(* decided once and for all, by the first of its answer and its timeout.   *)
THEOREM SpecImplementsPromise == Spec => ImplementsPromise
<1>1. Init => Promise!Init
  BY InitPromise
<1>2. IInv /\ [Next]_vars => [Promise!Next]_([c \in Calls |-> Outcome(c)])
  BY NextPromise
<1> QED
  BY <1>1, <1>2, SpecIInv, PTL DEF Spec, ImplementsPromise, Promise!Spec
=============================================================================
