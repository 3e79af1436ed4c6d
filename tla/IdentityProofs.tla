--------------------------- MODULE IdentityProofs ---------------------------
(***************************************************************************)
(* Of accounts, for every number of operators: a deletion is undone by a   *)
(* restore only, and a reported command has ended the sessions before it.  *)
(* Both rest on the lock: what a command read is still true of the account *)
(* when it writes, but for the epoch, which a change of password advances  *)
(* at any time.                                                            *)
(*                                                                         *)
(* Of sessions, for any pages, requests, sign-ins and failures: a reported *)
(* sign-out is final, a renewal's tokens reach the browser, work runs      *)
(* once, and an outage clears nothing.                                     *)
(***************************************************************************)
EXTENDS MCIdentity, SequenceTheorems, TLAPS

-----------------------------------------------------------------------------
(* Accounts.                                                               *)

USE AccountAssumption

\* One command at a time is at work, and it holds the lock.
Exclusive == \A o \in Operators : at[o] \in Working <=> lock = o

\* What a command is about to write keeps a deletion that it found.
Fresh ==
    /\ lates = 0 => late = {}
    /\ \A o \in Operators :
          at[o] = "replacing" /\ lates = 0 /\ Deleted(account)
             => Deleted(update[o]) \/ command[o] = "restore"

Inv == TypeOK /\ Exclusive /\ Fresh

LEMMA UpdatedType ==
    ASSUME NEW a \in Accounts, NEW c \in Commands, a.epoch < MaxEpoch
    PROVE  Updated(a, c) \in Accounts
<1>1. a.epoch + 1 \in 0 .. MaxEpoch
  BY DEF Accounts
<1>2. (c = "delete" \/ (c # "restore" /\ a.dated)) \in BOOLEAN /\ (c \in {"enable", "restore"}) \in BOOLEAN
  OBVIOUS
<1> QED
  BY <1>1, <1>2 DEF Updated, Accounts

\* The account, the sessions and the commands keep their types.
LEMMA TypeStep == TypeOK /\ [Next]_vars => TypeOK'
<1> SUFFICES ASSUME TypeOK, [Next]_vars PROVE TypeOK'
  OBVIOUS
<1> USE DEF TypeOK, Goto, Leave, Working
<1>1. ASSUME NEW o \in Operators, NEW c \in Commands, Begin(o, c) PROVE TypeOK'
  BY <1>1 DEF Begin
<1>2. ASSUME NEW o \in Operators, RefuseEnable(o) PROVE TypeOK'
  BY <1>2 DEF RefuseEnable
<1>3. ASSUME NEW o \in Operators, Resolve(o) PROVE TypeOK'
  <2>1. Updated(account, command[o]) \in Accounts
    BY <1>3, UpdatedType DEF Resolve
  <2> QED
    BY <1>3, <2>1 DEF Resolve
<1>4. ASSUME NEW o \in Operators, Replace(o) PROVE TypeOK'
  BY <1>4 DEF Replace
<1>5. ASSUME NEW o \in Operators, Revoke(o) PROVE TypeOK'
  BY <1>5 DEF Revoke
<1>6. ASSUME NEW o \in Operators, Verify(o) PROVE TypeOK'
  BY <1>6 DEF Verify
<1>7. ASSUME NEW o \in Operators, Fail(o) PROVE TypeOK'
  <2>1. at' \in [Operators -> Working \cup {"idle", "reported", "failed"}]
    BY <1>7 DEF Fail
  <2>2. account' \in Accounts /\ sessions' \in SUBSET (0 .. MaxEpoch)
    BY <1>7 DEF Fail
  <2>3. late' \in SUBSET Accounts /\ lates' \in 0 .. MaxLate
    BY <1>7 DEF Fail
  <2> QED
    BY <1>7, <2>1, <2>2, <2>3 DEF Fail
<1>8. ASSUME NEW a \in late, ReplaceLate(a) PROVE TypeOK'
  BY <1>8 DEF ReplaceLate
<1>9. CASE SignIn
  BY <1>9 DEF SignIn, Accounts
<1>10. ASSUME NEW s \in BOOLEAN, ChangePassword(s) PROVE TypeOK'
  BY <1>10 DEF ChangePassword, Accounts
<1>11. CASE UNCHANGED vars
  BY <1>11 DEF vars
<1> QED
  BY <1>1, <1>2, <1>3, <1>4, <1>5, <1>6, <1>7, <1>8, <1>9, <1>10, <1>11 DEF Next

LEMMA ExclusiveStep == TypeOK /\ Exclusive /\ [Next]_vars => Exclusive'
<1> SUFFICES ASSUME TypeOK, Exclusive, [Next]_vars PROVE Exclusive'
  OBVIOUS
<1> USE DEF TypeOK, Exclusive, Goto, Leave, Working
<1>1. ASSUME NEW o \in Operators, NEW c \in Commands, Begin(o, c) PROVE Exclusive'
  BY <1>1 DEF Begin
<1>2. ASSUME NEW o \in Operators, RefuseEnable(o) \/ Verify(o) \/ Fail(o) PROVE Exclusive'
  BY <1>2 DEF RefuseEnable, Verify, Fail
<1>3. ASSUME NEW o \in Operators, Resolve(o) \/ Replace(o) \/ Revoke(o) PROVE Exclusive'
  BY <1>3 DEF Resolve, Replace, Revoke
<1>4. ASSUME UNCHANGED <<lock, at>> PROVE Exclusive'
  BY <1>4
<1> QED
  BY <1>1, <1>2, <1>3, <1>4 DEF Next, ReplaceLate, SignIn, ChangePassword, vars

LEMMA FreshStep == Inv /\ [Next]_vars => Fresh'
<1> SUFFICES ASSUME Inv, [Next]_vars PROVE Fresh'
  OBVIOUS
<1> USE DEF Inv, TypeOK, Fresh, Goto, Leave
<1>1. ASSUME NEW o \in Operators, NEW c \in Commands, Begin(o, c) PROVE Fresh'
  BY <1>1 DEF Begin, Exclusive, Working
<1>2. ASSUME NEW o \in Operators, RefuseEnable(o) \/ Revoke(o) \/ Verify(o) PROVE Fresh'
  BY <1>2 DEF RefuseEnable, Revoke, Verify
<1>3. ASSUME NEW o \in Operators, Resolve(o) PROVE Fresh'
  <2>1. Deleted(account) => Deleted(Updated(account, command[o])) \/ command[o] = "restore"
    BY <1>3 DEF Resolve, Deleted, Updated, Commands
  <2> QED
    BY <1>3, <2>1 DEF Resolve
<1>4. ASSUME NEW o \in Operators, Replace(o) PROVE Fresh'
  BY <1>4 DEF Replace, Exclusive, Working
<1>5. ASSUME NEW o \in Operators, Fail(o) PROVE Fresh'
  <2>1. \A p \in Operators : at'[p] # "replacing"
    BY <1>5 DEF Fail, Exclusive, Working
  <2> QED
    BY <1>5, <2>1 DEF Fail
<1>6. ASSUME NEW a \in late, ReplaceLate(a) PROVE Fresh'
  BY <1>6 DEF ReplaceLate
<1>7. CASE SignIn
  BY <1>7 DEF SignIn
<1>8. ASSUME NEW s \in BOOLEAN, ChangePassword(s) PROVE Fresh'
  <2>1. Deleted(account') <=> Deleted(account)
    BY <1>8 DEF ChangePassword, Deleted, Accounts
  <2> QED
    BY <1>8, <2>1 DEF ChangePassword
<1>9. CASE UNCHANGED vars
  BY <1>9 DEF vars
<1> QED
  BY <1>1, <1>2, <1>3, <1>4, <1>5, <1>6, <1>7, <1>8, <1>9 DEF Next

LEMMA InvInit == Init => Inv
BY DEF Init, Inv, TypeOK, Exclusive, Fresh, Working, SignedUp, Accounts, Commands

LEMMA InvStep == Inv /\ [Next]_vars => Inv'
BY TypeStep, ExclusiveStep, FreshStep DEF Inv

THEOREM Invariance == Spec => []Inv
BY InvInit, InvStep, PTL DEF Spec

\* The account, its sessions and the commands keep their types, for any
\* number of operators and any bounds.
THEOREM TypeCorrect == Spec => []TypeOK
BY Invariance, PTL DEF Inv

LEMMA DeletionStep ==
    Inv /\ [Next]_vars =>
       (lates = 0 /\ Deleted(account) /\ ~Deleted(account') =>
           \E o \in Operators : at[o] = "replacing" /\ command[o] = "restore")
<1> SUFFICES ASSUME Inv, [Next]_vars, lates = 0, Deleted(account), ~Deleted(account')
             PROVE  \E o \in Operators : at[o] = "replacing" /\ command[o] = "restore"
  OBVIOUS
<1> USE DEF Inv, TypeOK, Fresh
<1>1. ASSUME NEW o \in Operators, Replace(o) \/ Fail(o)
      PROVE  at[o] = "replacing" /\ command[o] = "restore"
  <2>1. at[o] = "replacing" /\ account' = update[o]
    BY <1>1 DEF Replace, Fail
  <2> QED
    BY <2>1
<1>2. ASSUME NEW s \in BOOLEAN, ChangePassword(s) PROVE FALSE
  BY <1>2 DEF ChangePassword, Deleted, Accounts
<1>3. account' # account
  OBVIOUS
<1>4. \A a \in late : ~ReplaceLate(a)
  OBVIOUS
<1> QED
  BY <1>1, <1>2, <1>3, <1>4
  DEF Next, Begin, RefuseEnable, Resolve, Revoke, Verify, SignIn, vars

\* The lock of set_state does what its comment says, however many operators
\* run commands, whatever fails or dies and whoever changes the password, as
\* long as no failed replacement is made late.
THEOREM DeletionsStand == Spec => DeletionStands
<1>1. Inv /\ [Next]_vars =>
        [lates = 0 /\ Deleted(account) /\ ~Deleted(account') =>
            \E o \in Operators : at[o] = "replacing" /\ command[o] = "restore"]_vars
  BY DeletionStep
<1> QED
  BY <1>1, Invariance, PTL DEF Spec, DeletionStands

-----------------------------------------------------------------------------
(* Sessions.  A late replacement, if it lands between the write and the    *)
(* check, either shows in the check or leaves the account as it was but    *)
(* for the epoch; a second one could hide the first.                       *)

Same(a, b) == a.enabled = b.enabled /\ a.status = b.status /\ a.dated = b.dated

Written ==
    \A o \in Operators : at[o] \in {"revoking", "verifying"} =>
        /\ command[o] \in {"disable", "delete"} => ~update[o].enabled
        /\ hits = 0 => /\ Same(account, update[o])
                       /\ account.epoch >= update[o].epoch

Consistent ==
    \A o \in Operators : at[o] = "replacing" =>
        (command[o] \in {"disable", "delete"} => ~update[o].enabled)

Ended ==
    \A o \in Operators : at[o] = "verifying" /\ hits <= 1 /\ Same(account, update[o]) =>
        /\ \A s \in sessions : s >= update[o].epoch \/ s >= account.epoch
        /\ ~update[o].enabled => sessions = {}

SessionInv == Written /\ Consistent /\ Ended

LEMMA SessionStep ==
    ASSUME Inv, SessionInv, [Next]_vars
    PROVE  SessionInv'
<1> USE DEF Inv, TypeOK, Exclusive, Goto, Leave, Working, SessionInv, Written,
            Consistent, Ended
<1>1. ASSUME NEW o \in Operators, NEW c \in Commands, Begin(o, c) PROVE SessionInv'
  BY <1>1 DEF Begin
<1>2. ASSUME NEW o \in Operators, RefuseEnable(o) \/ Verify(o) PROVE SessionInv'
  BY <1>2 DEF RefuseEnable, Verify
<1>3. ASSUME NEW o \in Operators, Resolve(o) PROVE SessionInv'
  BY <1>3 DEF Resolve, Updated
<1>4. ASSUME NEW o \in Operators, Replace(o) PROVE SessionInv'
  BY <1>4 DEF Replace, Same, Accounts
<1>5. ASSUME NEW o \in Operators, Revoke(o) PROVE SessionInv'
  BY <1>5 DEF Revoke
<1>6. ASSUME NEW o \in Operators, Fail(o) PROVE SessionInv'
  <2>1. \A p \in Operators : at'[p] \notin Working
    BY <1>6 DEF Fail
  <2> QED
    BY <2>1
<1>7. ASSUME NEW a \in late, ReplaceLate(a) PROVE SessionInv'
  <2>1. /\ hits' = IF hits < 2 THEN hits + 1 ELSE hits
        /\ account' = a /\ UNCHANGED <<sessions, at, command, update>>
    BY <1>7 DEF ReplaceLate
  <2>2. ASSUME NEW o \in Operators, at[o] = "verifying", hits' <= 1
        PROVE  /\ \A s \in sessions : s >= update[o].epoch
               /\ ~update[o].enabled => sessions = {}
    <3>1. hits = 0
      BY <2>1, <2>2
    <3>2. account.epoch \in Nat /\ update[o].epoch \in Nat /\ \A s \in sessions : s \in Nat
      BY DEF Accounts
    <3>. QED  BY <2>2, <3>1, <3>2
  <2> QED
    BY <2>1, <2>2
<1>8. CASE SignIn
  <2>1. UNCHANGED <<account, at, command, update, hits>>
    BY <1>8 DEF SignIn
  <2>2. ASSUME NEW o \in Operators, at[o] = "verifying", hits <= 1, Same(account, update[o])
        PROVE  /\ \A s \in sessions' : s >= update[o].epoch \/ s >= account.epoch
               /\ update[o].enabled
    <3>1. account.epoch \in Nat /\ account.enabled /\ sessions' = sessions \cup {account.epoch}
      BY <1>8 DEF SignIn, Accounts
    <3>2. account.epoch >= account.epoch
      BY <3>1
    <3> QED
      BY <2>2, <3>1, <3>2 DEF Same
  <2>3. Ended'
    BY <2>1, <2>2 DEF Same
  <2> QED
    BY <2>1, <2>3 DEF Same
<1>9. ASSUME NEW s \in BOOLEAN, ChangePassword(s) PROVE SessionInv'
  BY <1>9 DEF ChangePassword, Same, Accounts
<1>10. CASE UNCHANGED vars
  BY <1>10 DEF vars
<1> QED
  BY <1>1, <1>2, <1>3, <1>4, <1>5, <1>6, <1>7, <1>8, <1>9, <1>10 DEF Next

LEMMA ReportStep ==
    Inv /\ SessionInv /\ [Next]_vars =>
       \A o \in Operators : at[o] # "reported" /\ at'[o] = "reported" /\ hits <= 1 =>
          /\ \A s \in sessions : s >= update[o].epoch
          /\ command[o] \in {"disable", "delete"} => sessions = {} /\ ~account.enabled
<1> SUFFICES ASSUME Inv, SessionInv, [Next]_vars,
                    NEW o \in Operators, at[o] # "reported", at'[o] = "reported", hits <= 1
             PROVE  /\ \A s \in sessions : s >= update[o].epoch
                    /\ command[o] \in {"disable", "delete"} => sessions = {} /\ ~account.enabled
  OBVIOUS
<1>1. Verify(o) /\ account = update[o]
  BY DEF Inv, TypeOK, Next, Begin, RefuseEnable, Resolve, Replace, Revoke, Verify, Fail,
         ReplaceLate, SignIn, ChangePassword, vars, Goto, Leave
<1> QED
  BY <1>1 DEF Verify, SessionInv, Written, Ended, Same, Inv, TypeOK, Accounts

\* A command that reports success has left no session that began before it,
\* and none at all if it stopped the account; for any number of operators and
\* of failed replacements made late, unless two of them land in one command
\* between its own replacement and its check (set_state).
THEOREM ReportedAreRevoked == Spec => ReportedIsRevoked
<1>1. Init => SessionInv
  BY DEF Init, SessionInv, Written, Consistent, Ended
<1>2. Inv /\ SessionInv /\ [Next]_vars => SessionInv'
  BY SessionStep
<1>3. Inv /\ SessionInv /\ [Next]_vars =>
        [\A o \in Operators : at[o] # "reported" /\ at'[o] = "reported" /\ hits <= 1 =>
            /\ \A s \in sessions : s >= update[o].epoch
            /\ command[o] \in {"disable", "delete"} => sessions = {} /\ ~account.enabled]_vars
  BY ReportStep
<1> QED
  BY <1>1, <1>2, <1>3, Invariance, PTL DEF Spec, ReportedIsRevoked

-----------------------------------------------------------------------------
(* Sessions: the inductive invariant.                                      *)

AllCalls == Requests \cup Pages

Jar == [access : Nat \cup {None}, refresh : Nat \cup {None},
        flow : (1 .. MaxSignIns) \cup {None}, csrf : BOOLEAN]

Number == Nat \cup {None}
Places == {"idle", "arrived", "working", "authorizing", "renewing", "confirming", "finishing",
           "revoking", "answered", "waiting", "retrying", "done"}
Kinds == {None, "operation", "document", "signOut", "renewal"}
Answers == {None, "denied", "resumePage", "required", "ended", "refused", "renewed", "ok", "stale",
            "unavailable", "signedOut"}
Record == [at : Places, kind : Kinds, access : Number, refresh : Number, tokens : Number,
           answer : Answers, runs : Nat, again : BOOLEAN, bare : BOOLEAN]

Pairs == 1 .. Len(issued)

Typed ==
    /\ jar \in Jar
    /\ flows \in 0 .. MaxSignIns
    /\ issued \in Seq(1 .. MaxSignIns) /\ Len(issued) <= MaxIssued
    /\ ended \subseteq 1 .. MaxSignIns
    /\ lapsed \cup revoked \cup spent \cup lost \subseteq Pairs
    /\ call \in [AllCalls -> Record]

\* The two cookies of a session are of one pair, in the jar and on the way.
JarHoldsOnePair == jar.access = jar.refresh /\ jar.access \in Pairs \cup {None}

\* What was reported as signed out is over at the identity service.
SignedOutIsOver == signedOut \subseteq ended

\* Where a request has not run its work, and where new tokens can be.
NotRun == {"idle", "arrived", "working", "waiting", "retrying"}
Carrying == {"confirming", "finishing", "answered"}

\* What holds of each call by itself.
CallIsSound(c) ==
    LET r == call[c] IN
    /\ r.access = r.refresh
    /\ r.access \in Pairs \cup {None} /\ r.tokens \in Pairs \cup {None}
    /\ r.tokens # None => r.at \in Carrying
    /\ r.at = "confirming" => r.refresh \in spent
    /\ r.at = "answered" /\ r.answer \in {"ended", "refused"} =>
          r.access \in revoked \/ ~Browser!Grants(r.refresh)
    /\ r.runs <= 1
    /\ r.at \in NotRun \/ (r.at = "answered" /\ r.answer = "required") => r.runs = 0
CallsAreSound == \A c \in AllCalls : CallIsSound(c)

\* A new pair has one holder until the browser has it, and was used nowhere.
NewPairIsUnused(c) ==
    LET n == call[c].tokens IN
    n # None => /\ n \notin lapsed \cup revoked \cup spent
                /\ n # jar.access
                /\ \A d \in AllCalls : call[d].access # n /\ (d # c => call[d].tokens # n)
NewPairsAreUnused == \A c \in AllCalls : NewPairIsUnused(c)

BrowserInv == Typed /\ JarHoldsOnePair /\ SignedOutIsOver /\ CallsAreSound /\ NewPairsAreUnused
              /\ RenewedTokensReachTheBrowser

-----------------------------------------------------------------------------
(* Lemmas about a step of one call.                                        *)

\* The service only issues, ends, revokes and spends.
Grown ==
    /\ issued' \in Seq(1 .. MaxSignIns) /\ Len(issued) <= Len(issued') /\ Len(issued') <= MaxIssued
    /\ \A n \in Pairs : issued'[n] = issued[n]
    /\ ended \subseteq ended' /\ ended' \subseteq 1 .. MaxSignIns
    /\ revoked \subseteq revoked' /\ spent \subseteq spent' /\ lost \subseteq lost'
    /\ lapsed' \cup revoked' \cup spent' \cup lost' \subseteq Pairs'
    /\ signedOut' \subseteq ended'

\* Only c moves.
Moved(c) ==
    /\ call' \in [AllCalls -> Record]
    /\ \A d \in AllCalls : d # c => call'[d] = call[d]

LEMMA NothingIssued ==
    ASSUME BrowserInv, UNCHANGED <<issued, ended, lapsed, revoked, spent, lost, signedOut>>
    PROVE  Grown
BY DEF BrowserInv, Typed, SignedOutIsOver, Grown, Pairs

LEMMA PairIsIssued ==
    ASSUME BrowserInv
    PROVE  /\ Len(issued) \in Nat /\ Pairs \subseteq Nat /\ None \notin Pairs
           /\ \A n \in Pairs : issued[n] \in 1 .. MaxSignIns
BY SessionsAssumption DEF BrowserInv, Typed, Pairs

\* A call that did not move is as sound as it was.
LEMMA SoundStays ==
    ASSUME BrowserInv, Grown, NEW c \in AllCalls, call'[c] = call[c]
    PROVE  CallIsSound(c)'
<1>1. Pairs \subseteq Pairs' /\ None \notin Pairs'
  BY PairIsIssued, SessionsAssumption DEF Grown, Pairs
<1>2. CallIsSound(c)
  BY DEF BrowserInv, CallsAreSound
<1>3. call[c].refresh \in Pairs \cup {None}
  BY <1>2 DEF CallIsSound
<1>4. ~Browser!Grants(call[c].refresh) => ~Browser!Grants(call[c].refresh)'
  BY <1>1, <1>3 DEF Browser!Grants, Grown, Pairs
<1>. QED  BY <1>1, <1>2, <1>4 DEF CallIsSound, Grown

\* How a step of one call may use the service: the pair it carries is kept,
\* newly issued, or dropped only for a session that is over or with the loss
\* recorded; and what it spends it spends for a pair of the same session.
PairHandled(c) ==
    \/ call'[c].tokens = call[c].tokens
    \/ /\ call'[c].tokens = None
       /\ call[c].tokens # None => issued[call[c].tokens] \in ended \/ lost' # {}
    \/ /\ call[c].tokens = None
       /\ Len(issued) < Len(issued') /\ call'[c].tokens = Len(issued')

SpentForAPair(c) ==
    \/ spent' = spent
    \/ /\ call[c].refresh \in Pairs /\ spent' = spent \cup {call[c].refresh}
       /\ \/ lost' # {}
          \/ call'[c].tokens # None /\ issued'[call'[c].tokens] = issued[call[c].refresh]

\* A step of one call that leaves the jar alone.
LEMMA OneCallMoves ==
    ASSUME BrowserInv, Grown, NEW c \in AllCalls, Moved(c), UNCHANGED <<jar, flows, lapsed>>,
           call'[c].access \in {call[c].access, jar.access, None}, CallIsSound(c)',
           PairHandled(c), SpentForAPair(c),
           revoked' \subseteq revoked \cup ({call[c].access} \ {None})
    PROVE  BrowserInv'
<1>0. /\ Len(issued) \in Nat /\ Len(issued') \in Nat
      /\ Pairs = 1 .. Len(issued) /\ Pairs' = 1 .. Len(issued')
      /\ Pairs \subseteq Pairs' /\ None \notin Pairs'
  BY PairIsIssued, SessionsAssumption DEF Grown, Pairs
<1>1. Typed' /\ JarHoldsOnePair' /\ SignedOutIsOver'
  BY <1>0 DEF BrowserInv, Typed, JarHoldsOnePair, SignedOutIsOver, Grown, Moved
<1>2. CallsAreSound'
  <2>. SUFFICES ASSUME NEW d \in AllCalls, d # c PROVE CallIsSound(d)'
    BY DEF CallsAreSound
  <2>. QED  BY SoundStays DEF Moved
<1>3. \A d \in AllCalls : /\ call[d].access = call[d].refresh
                          /\ call[d].access \in Pairs \cup {None}
                          /\ call[d].tokens \in Pairs \cup {None}
                          /\ NewPairIsUnused(d)
  BY DEF BrowserInv, CallsAreSound, CallIsSound, NewPairsAreUnused
<1>4. /\ lapsed \cup revoked \cup spent \subseteq Pairs
      /\ jar.access = jar.refresh /\ jar.access \in Pairs \cup {None}
  BY DEF BrowserInv, Typed, JarHoldsOnePair
<1>5. NewPairsAreUnused'
  <2>. SUFFICES ASSUME NEW d \in AllCalls, call'[d].tokens # None
                PROVE  LET n == call'[d].tokens IN
                       /\ n \notin lapsed' \cup revoked' \cup spent'
                       /\ n # jar.access
                       /\ \A e \in AllCalls : call'[e].access # n /\ (e # d => call'[e].tokens # n)
    BY DEF NewPairsAreUnused, NewPairIsUnused
  <2>. DEFINE n == call'[d].tokens
  <2>1. \A e \in AllCalls \ {c} : call'[e] = call[e]
    BY DEF Moved
  <2>2. CASE n = call[d].tokens
    <3>1. /\ n \notin lapsed \cup revoked \cup spent /\ n # jar.access /\ n # None
          /\ \A e \in AllCalls : call[e].access # n /\ (e # d => call[e].tokens # n)
      BY <1>3, <2>2 DEF NewPairIsUnused
    <3>2. n \in Pairs /\ call[c].access = call[c].refresh
      BY <1>3, <2>2
    <3>3. n \notin lapsed' \cup revoked' \cup spent'
      BY <3>1, <3>2 DEF SpentForAPair
    <3>4. \A e \in AllCalls : call'[e].access # n
      BY <2>1, <3>1
    <3>5. \A e \in AllCalls : e # d => call'[e].tokens # n
      BY <1>0, <2>1, <3>1, <3>2 DEF PairHandled
    <3>. QED  BY <3>1, <3>3, <3>4, <3>5
  <2>3. CASE n # call[d].tokens
    <3>1. d = c /\ n = Len(issued') /\ Len(issued) < Len(issued')
      BY <2>1, <2>3 DEF PairHandled
    <3>2. n \notin Pairs /\ n # None
      BY <1>0, <3>1
    <3>3. n \notin lapsed' \cup revoked' \cup spent' /\ n # jar.access
      BY <1>3, <1>4, <3>2 DEF SpentForAPair
    <3>4. \A e \in AllCalls : call'[e].access # n /\ (e # c => call'[e].tokens # n)
      BY <1>3, <1>4, <2>1, <3>2
    <3>. QED  BY <3>1, <3>3, <3>4
  <2>. QED  BY <2>2, <2>3
<1>6. RenewedTokensReachTheBrowser'
  <2>. SUFFICES ASSUME jar.refresh \in spent', issued'[jar.refresh] \notin ended', lost' = {}
                PROVE  \E d \in AllCalls : /\ call'[d].tokens # None
                                           /\ issued'[call'[d].tokens] = issued'[jar.refresh]
    BY DEF RenewedTokensReachTheBrowser, Browser!RenewedTokensReachTheBrowser, AllCalls, Browser!Calls
  <2>1. CASE jar.refresh \in spent
    <3>1. jar.refresh \in Pairs /\ issued'[jar.refresh] = issued[jar.refresh]
      BY <1>4, <2>1 DEF Grown
    <3>2. issued[jar.refresh] \notin ended /\ lost = {}
      BY <3>1 DEF Grown
    <3>3. PICK d \in AllCalls : call[d].tokens # None /\ issued[call[d].tokens] = issued[jar.refresh]
      BY <2>1, <3>2 DEF BrowserInv, RenewedTokensReachTheBrowser, Browser!RenewedTokensReachTheBrowser,
         AllCalls, Browser!Calls
    <3>4. call[d].tokens \in Pairs
      BY <1>3, <3>3
    <3>5. call'[d].tokens = call[d].tokens
      BY <3>2, <3>3 DEF Moved, PairHandled
    <3>. QED  BY <3>1, <3>3, <3>4, <3>5 DEF Grown
  <2>2. CASE jar.refresh \notin spent
    BY <2>2 DEF SpentForAPair, Grown
  <2>. QED  BY <2>1, <2>2
<1>. QED  BY <1>1, <1>2, <1>5, <1>6 DEF BrowserInv

LEMMA CallTyped ==
    ASSUME BrowserInv, NEW c \in AllCalls
    PROVE  call[c] \in Record /\ call \in [AllCalls -> Record] /\ CallIsSound(c)
BY DEF BrowserInv, Typed, CallsAreSound

LEMMA GotoMoves ==
    ASSUME BrowserInv, NEW c \in AllCalls, NEW place \in Places, Browser!Goto(c, place)
    PROVE  /\ Moved(c) /\ call'[c].at = place
           /\ call'[c].kind = call[c].kind
           /\ call'[c].access = call[c].access /\ call'[c].refresh = call[c].refresh
           /\ call'[c].tokens = call[c].tokens /\ call'[c].answer = call[c].answer
           /\ call'[c].runs = call[c].runs
BY CallTyped DEF Browser!Goto, Moved, Record

LEMMA AnsweredRecord ==
    ASSUME NEW r \in Record, NEW code \in Answers
    PROVE  LET a == [r EXCEPT !.at = "answered", !.answer = code] IN
           /\ a \in Record /\ a.at = "answered" /\ a.answer = code /\ a.kind = r.kind
           /\ a.access = r.access /\ a.refresh = r.refresh /\ a.tokens = r.tokens /\ a.runs = r.runs
<1>1. "answered" \in Places
  BY DEF Places
<1>. QED  BY <1>1 DEF Record

LEMMA AnswerMoves ==
    ASSUME BrowserInv, NEW c \in AllCalls, NEW code \in Answers, Browser!Answer(c, code)
    PROVE  /\ Moved(c) /\ call'[c].at = "answered" /\ call'[c].answer = code
           /\ call'[c].kind = call[c].kind
           /\ call'[c].access = call[c].access /\ call'[c].refresh = call[c].refresh
           /\ call'[c].tokens = call[c].tokens
           /\ call'[c].runs = call[c].runs
<1>. DEFINE row == [call[c] EXCEPT !.at = "answered", !.answer = code]
<1>1. call' = [call EXCEPT ![c] = row]
  BY CallTyped DEF Browser!Answer
<1>2. /\ row \in Record /\ row.at = "answered" /\ row.answer = code /\ row.kind = call[c].kind
      /\ row.access = call[c].access /\ row.refresh = call[c].refresh
      /\ row.tokens = call[c].tokens /\ row.runs = call[c].runs
  BY CallTyped, AnsweredRecord
<1>. HIDE DEF row
<1>. QED  BY <1>1, <1>2, CallTyped DEF Moved

LEMMA RowMoves ==
    ASSUME BrowserInv, NEW c \in AllCalls, NEW row \in Record, call' = [call EXCEPT ![c] = row]
    PROVE  Moved(c) /\ call'[c] = row
BY CallTyped DEF Moved

\* The records of a request sent again, of one moved on, and of one that is
\* over.
LEMMA AgainRecord ==
    ASSUME NEW r \in Record
    PROVE  LET a == [r EXCEPT !.again = TRUE] IN
           /\ a \in Record /\ a.at = r.at /\ a.answer = r.answer /\ a.tokens = r.tokens
           /\ a.access = r.access /\ a.refresh = r.refresh /\ a.runs = r.runs
BY DEF Record

LEMMA PlacedRecord ==
    ASSUME NEW r \in Record, NEW place \in Places
    PROVE  LET a == [r EXCEPT !.at = place] IN
           /\ a \in Record /\ a.at = place /\ a.kind = r.kind /\ a.tokens = r.tokens
           /\ a.access = r.access /\ a.refresh = r.refresh /\ a.runs = r.runs
BY DEF Record

LEMMA IdleRecord ==
    /\ Browser!Idle \in Record /\ Browser!Idle.at = "idle" /\ Browser!Idle.runs = 0
    /\ Browser!Idle.access = None /\ Browser!Idle.refresh = None /\ Browser!Idle.tokens = None
BY DEF Browser!Idle, Record, Places, Kinds, Answers, Number

LEMMA OverRecord ==
    ASSUME BrowserInv, NEW c \in AllCalls
    PROVE  /\ Browser!Over(c) \in Record /\ Browser!Over(c).at = "done"
           /\ Browser!Over(c).runs = call[c].runs
           /\ Browser!Over(c).access = None /\ Browser!Over(c).refresh = None
           /\ Browser!Over(c).tokens = None
<1>. DEFINE idle == Browser!Idle
            runs == call[c].runs
<1>1. idle \in Record /\ runs \in Nat
      /\ idle.access = None /\ idle.refresh = None /\ idle.tokens = None
  BY IdleRecord, CallTyped DEF Record
<1>2. Browser!Over(c) = [idle EXCEPT !.at = "done", !.runs = runs]
  BY DEF Browser!Over
<1>. HIDE DEF idle, runs
<1>3. "done" \in Places
  BY DEF Places
<1>4. /\ Browser!Over(c) \in Record /\ Browser!Over(c).at = "done" /\ Browser!Over(c).runs = runs
      /\ Browser!Over(c).access = None /\ Browser!Over(c).refresh = None
      /\ Browser!Over(c).tokens = None
  BY <1>1, <1>2, <1>3 DEF Record
<1>. QED  BY <1>4 DEF runs

\* A step of one call that asks nothing of the service.
LEMMA CallAlone ==
    ASSUME BrowserInv, NEW c \in AllCalls, Moved(c), UNCHANGED jar,
           UNCHANGED <<flows, issued, ended, lapsed, revoked, spent, lost, signedOut>>,
           call'[c].access \in {call[c].access, jar.access, None}, CallIsSound(c)',
           call'[c].tokens = call[c].tokens
    PROVE  BrowserInv'
BY NothingIssued, OneCallMoves DEF PairHandled, SpentForAPair

\* A step of one call to another place keeps its tokens.
LEMMA SoundElsewhere ==
    ASSUME BrowserInv, NEW c \in AllCalls, Grown,
           call'[c].access = call[c].access, call'[c].refresh = call[c].refresh,
           call'[c].tokens = call[c].tokens, call'[c].runs = call[c].runs,
           call[c].tokens # None => call'[c].at \in Carrying,
           call'[c].at = "confirming" => call[c].refresh \in spent',
           call'[c].at = "answered" /\ call'[c].answer \in {"ended", "refused"} =>
              call[c].access \in revoked' \/ ~Browser!Grants(call[c].refresh)',
           call'[c].at \in NotRun \/ (call'[c].at = "answered" /\ call'[c].answer = "required") =>
              call[c].runs = 0
    PROVE  CallIsSound(c)'
<1>1. Pairs \subseteq Pairs'
  BY PairIsIssued DEF Grown, Pairs
<1>2. CallIsSound(c)
  BY CallTyped
<1>. QED  BY <1>1, <1>2 DEF CallIsSound, Browser!Grants

-----------------------------------------------------------------------------
(* Initially.                                                              *)

LEMMA BrowserInit == Browser!Init => BrowserInv
<1>. SUFFICES ASSUME Browser!Init PROVE BrowserInv
  OBVIOUS
<1>1. /\ jar.access = None /\ jar.refresh = None /\ jar \in Jar
      /\ flows = 0 /\ issued = <<>> /\ ended = {} /\ lapsed = {} /\ revoked = {} /\ spent = {}
      /\ lost = {} /\ signedOut = {}
  BY DEF Browser!Init, Browser!EmptyJar, Jar
<1>2. call \in [AllCalls -> Record] /\ \A c \in AllCalls : call[c] = Browser!Idle
  BY IdleRecord DEF Browser!Init, Browser!Calls, AllCalls
<1>3. Typed
  BY <1>1, <1>2, SessionsAssumption DEF Typed, Pairs
<1>4. CallsAreSound
  BY <1>2, IdleRecord DEF CallsAreSound, CallIsSound, NotRun
<1>5. NewPairsAreUnused
  BY <1>2, IdleRecord DEF NewPairsAreUnused, NewPairIsUnused
<1>. QED  BY <1>1, <1>3, <1>4, <1>5 DEF BrowserInv, JarHoldsOnePair, SignedOutIsOver,
     RenewedTokensReachTheBrowser, Browser!RenewedTokensReachTheBrowser

-----------------------------------------------------------------------------
(* The steps.                                                              *)

\* What the jar may give a request that is sent.
LEMMA JarFacts ==
    ASSUME BrowserInv
    PROVE  /\ jar.access = jar.refresh /\ jar.access \in Pairs \cup {None}
           /\ jar.access \in Number /\ jar \in Jar /\ jar.csrf \in BOOLEAN
BY PairIsIssued DEF BrowserInv, Typed, JarHoldsOnePair, Number, Jar

LEMMA CarryEffect ==
    ASSUME BrowserInv, NEW c \in AllCalls, NEW kind \in Kinds
    PROVE  /\ Browser!Carry(c, kind) \in Record /\ Browser!Carry(c, kind).at = "arrived"
           /\ Browser!Carry(c, kind).tokens = None /\ Browser!Carry(c, kind).access = jar.access
           /\ Browser!Carry(c, kind).refresh = jar.refresh
           /\ Browser!Carry(c, kind).runs = call[c].runs
<1>. DEFINE r == call[c]
            n == jar.access
            m == jar.refresh
            b == ~jar.csrf
<1>1. r \in Record /\ n \in Number /\ m \in Number /\ b \in BOOLEAN
  BY CallTyped, JarFacts
<1>2. "arrived" \in Places
  BY DEF Places
<1>3. Browser!Carry(c, kind) = [r EXCEPT !.at = "arrived", !.kind = kind, !.tokens = None,
                                         !.access = n, !.refresh = m, !.bare = b]
  BY DEF Browser!Carry
<1>. HIDE DEF r, n, m, b
<1>4. /\ Browser!Carry(c, kind) \in Record /\ Browser!Carry(c, kind).at = "arrived"
      /\ Browser!Carry(c, kind).tokens = None /\ Browser!Carry(c, kind).access = n
      /\ Browser!Carry(c, kind).refresh = m /\ Browser!Carry(c, kind).runs = r.runs
  BY <1>1, <1>2, <1>3 DEF Record, Number
<1>. QED  BY <1>4 DEF r, n, m

\* A request sent, or sent again, carries the pair in the jar.
LEMMA Carried ==
    ASSUME BrowserInv, NEW c \in AllCalls, NEW row \in Record, call' = [call EXCEPT ![c] = row],
           UNCHANGED <<jar, flows, issued, ended, lapsed, revoked, spent, lost, signedOut>>,
           row.at \in {"arrived", "renewing"}, row.access = jar.access, row.refresh = jar.refresh,
           row.tokens = None, row.runs = call[c].runs,
           call[c].at \in NotRun
    PROVE  BrowserInv'
<1>1. Moved(c) /\ call'[c] = row
  BY RowMoves
<1>2. call[c].runs = 0 /\ call[c].tokens = None
  BY CallTyped DEF CallIsSound, NotRun, Carrying
<1>3. CallIsSound(c)'
  BY <1>1, <1>2, JarFacts DEF CallIsSound, Pairs
<1>. QED  BY <1>1, <1>2, <1>3, CallAlone

\* A request denied for want of the cookie against forgery carries nothing.
LEMMA Denied ==
    ASSUME BrowserInv, NEW c \in AllCalls, NEW row \in Record, call' = [call EXCEPT ![c] = row],
           UNCHANGED <<jar, flows, issued, ended, lapsed, revoked, spent, lost, signedOut>>,
           row.at = "answered", row.answer = "denied",
           row.access = call[c].access, row.refresh = call[c].refresh,
           row.tokens = call[c].tokens, row.runs = call[c].runs,
           call[c].at \in NotRun
    PROVE  BrowserInv'
<1>1. Moved(c) /\ call'[c] = row
  BY RowMoves
<1>2. call[c].tokens = None /\ call[c].runs = 0
  BY CallTyped DEF CallIsSound, NotRun, Carrying
<1>3. CallIsSound(c)'
  BY <1>1, <1>2, SoundElsewhere, NothingIssued DEF NotRun
<1>. QED  BY <1>1, <1>3, CallAlone

LEMMA SentEffect ==
    ASSUME BrowserInv, NEW c \in AllCalls, NEW kind \in Kinds
    PROVE  LET row == Browser!Sent(c, kind) IN
           /\ row \in Record /\ row.runs = call[c].runs
           /\ \/ /\ row.at = "answered" /\ row.answer = "denied" /\ row.tokens = call[c].tokens
                 /\ row.access = call[c].access /\ row.refresh = call[c].refresh
              \/ /\ row.at = "arrived" /\ row.tokens = None
                 /\ row.access = jar.access /\ row.refresh = jar.refresh
<1>. DEFINE denied == [call[c] EXCEPT !.at = "answered", !.answer = "denied"]
            sent == Browser!Carry(c, kind)
<1>1. /\ denied \in Record /\ denied.at = "answered" /\ denied.answer = "denied"
      /\ denied.access = call[c].access /\ denied.refresh = call[c].refresh
      /\ denied.tokens = call[c].tokens /\ denied.runs = call[c].runs
  <2>1. "denied" \in Answers
    BY DEF Answers
  <2>. QED  BY <2>1, CallTyped, AnsweredRecord
<1>2. /\ sent \in Record /\ sent.at = "arrived" /\ sent.tokens = None
      /\ sent.access = jar.access /\ sent.refresh = jar.refresh /\ sent.runs = call[c].runs
  BY CarryEffect
<1>3. Browser!Sent(c, kind) = denied \/ Browser!Sent(c, kind) = sent
  BY DEF Browser!Sent
<1>. HIDE DEF denied, sent
<1>. QED  BY <1>1, <1>2, <1>3

LEMMA SendStep ==
    ASSUME BrowserInv, NEW r \in Requests, NEW kind \in {"operation", "document", "signOut"},
           Browser!Send(r, kind)
    PROVE  BrowserInv'
<1>0. /\ r \in AllCalls /\ call[r].at \in NotRun
      /\ UNCHANGED <<jar, flows, issued, ended, lapsed, revoked, spent, lost, signedOut>>
  BY DEF AllCalls, NotRun, Browser!Send, Browser!At, Browser!service, Browser!history
<1>1. kind \in Kinds
  BY DEF Kinds
<1>. DEFINE row == Browser!Sent(r, kind)
<1>2. /\ row \in Record /\ row.runs = call[r].runs
      /\ \/ /\ row.at = "answered" /\ row.answer = "denied" /\ row.tokens = call[r].tokens
            /\ row.access = call[r].access /\ row.refresh = call[r].refresh
         \/ /\ row.at = "arrived" /\ row.tokens = None
            /\ row.access = jar.access /\ row.refresh = jar.refresh
  BY <1>0, <1>1, SentEffect
<1>3. call' = [call EXCEPT ![r] = row]
  BY DEF Browser!Send
<1>. HIDE DEF row
<1>. QED  BY <1>0, <1>2, <1>3, Carried, Denied

LEMMA AuthenticateStep ==
    ASSUME BrowserInv, NEW r \in Requests, Browser!Authenticate(r)
    PROVE  BrowserInv'
<1>0. /\ r \in AllCalls /\ call[r].at = "arrived"
      /\ UNCHANGED <<jar, flows, issued, ended, lapsed, revoked, spent, lost, signedOut>>
  BY DEF AllCalls, Browser!Authenticate, Browser!At, Browser!service, Browser!history
<1>1. call[r].tokens = None /\ call[r].runs = 0
  BY <1>0, CallTyped DEF CallIsSound, NotRun, Carrying
<1>2. \/ Browser!Goto(r, "working")
      \/ Browser!Answer(r, "resumePage") \/ Browser!Answer(r, "required")
  BY DEF Browser!Authenticate
<1>3. /\ Moved(r) /\ call'[r].access = call[r].access /\ call'[r].refresh = call[r].refresh
      /\ call'[r].tokens = call[r].tokens /\ call'[r].runs = call[r].runs
      /\ \/ call'[r].at = "working"
         \/ call'[r].at = "answered" /\ call'[r].answer \in {"resumePage", "required"}
  BY <1>0, <1>2, GotoMoves, AnswerMoves, "working" \in Places, "resumePage" \in Answers,
     "required" \in Answers DEF Places, Answers
<1>4. CallIsSound(r)'
  BY <1>0, <1>1, <1>3, SoundElsewhere, NothingIssued
<1>. QED  BY <1>0, <1>3, <1>4, CallAlone

LEMMA RunStep ==
    ASSUME BrowserInv, NEW r \in Requests, Browser!Run(r)
    PROVE  BrowserInv'
<1>0. /\ r \in AllCalls /\ call[r].at = "working"
      /\ UNCHANGED <<jar, flows, issued, ended, lapsed, revoked, spent, lost, signedOut>>
  BY DEF AllCalls, Browser!Run, Browser!At, Browser!service, Browser!history
<1>1. call[r] \in Record /\ call[r].tokens = None /\ call[r].runs = 0 /\ CallIsSound(r)
  BY <1>0, CallTyped DEF CallIsSound, NotRun, Carrying
<1>. DEFINE row == [call[r] EXCEPT !.at = "authorizing", !.runs = 1]
<1>2. call' = [call EXCEPT ![r] = row]
  <2>1. call' = [call EXCEPT ![r] = [call[r] EXCEPT !.at = "authorizing", !.runs = call[r].runs + 1]]
    BY <1>0, CallTyped DEF Browser!Run
  <2>2. call[r].runs + 1 = 1
    BY <1>1
  <2>. QED  BY <2>1, <2>2
<1>3. /\ row \in Record /\ row.at = "authorizing" /\ row.runs = 1 /\ row.tokens = call[r].tokens
      /\ row.access = call[r].access /\ row.refresh = call[r].refresh
  <2>1. "authorizing" \in Places
    BY DEF Places
  <2>. QED  BY <1>1, <2>1 DEF Record
<1>. HIDE DEF row
<1>4. Moved(r) /\ call'[r] = row
  BY <1>0, <1>2, <1>3, RowMoves
<1>5. CallIsSound(r)'
  BY <1>0, <1>1, <1>3, <1>4 DEF CallIsSound, NotRun, Pairs
<1>. QED  BY <1>0, <1>3, <1>4, <1>5, CallAlone

\* A token that is not valid any more, though its time has not run out, is of
\* a session that grants nothing.
LEMMA NotValid ==
    ASSUME BrowserInv, NEW c \in AllCalls, ~Browser!Valid(call[c].access),
           call[c].access \notin lapsed \/ call[c].refresh = None
    PROVE  call[c].access \in revoked \/ ~Browser!Grants(call[c].refresh)
BY CallTyped, PairIsIssued DEF CallIsSound, Browser!Valid, Browser!Grants, Pairs

LEMMA AuthorizeStep ==
    ASSUME BrowserInv, NEW r \in Requests, Browser!Authorize(r)
    PROVE  BrowserInv'
<1>0. /\ r \in AllCalls /\ call[r].at = "authorizing"
      /\ UNCHANGED <<jar, flows, issued, ended, lapsed, revoked, spent, lost, signedOut>>
  BY DEF AllCalls, Browser!Authorize, Browser!At, Browser!service, Browser!history
<1>1. call[r].tokens = None
  BY <1>0, CallTyped DEF CallIsSound, Carrying
<1>2. CASE Browser!Goto(r, "finishing") \/ Browser!Goto(r, "renewing")
  <2>1. /\ Moved(r) /\ call'[r].access = call[r].access /\ call'[r].refresh = call[r].refresh
        /\ call'[r].tokens = call[r].tokens /\ call'[r].runs = call[r].runs
        /\ call'[r].at \in {"finishing", "renewing"}
    BY <1>0, <1>2, GotoMoves, "finishing" \in Places, "renewing" \in Places DEF Places
  <2>2. CallIsSound(r)'
    BY <1>0, <1>1, <2>1, SoundElsewhere, NothingIssued DEF NotRun
  <2>. QED  BY <1>0, <2>1, <2>2, CallAlone
<1>3. CASE /\ ~Browser!Valid(call[r].access) /\ Browser!Answer(r, "ended")
           /\ call[r].access \notin lapsed \/ call[r].refresh = None
  <2>1. /\ Moved(r) /\ call'[r].access = call[r].access /\ call'[r].refresh = call[r].refresh
        /\ call'[r].tokens = call[r].tokens /\ call'[r].runs = call[r].runs
        /\ call'[r].at = "answered" /\ call'[r].answer = "ended"
    BY <1>0, <1>3, AnswerMoves, "ended" \in Answers DEF Answers
  <2>2. call[r].access \in revoked \/ ~Browser!Grants(call[r].refresh)
    BY <1>0, <1>3, NotValid
  <2>3. CallIsSound(r)'
    BY <1>0, <1>1, <2>1, <2>2, SoundElsewhere, NothingIssued DEF NotRun, Browser!Grants
  <2>. QED  BY <1>0, <2>1, <2>3, CallAlone
<1>. QED  BY <1>2, <1>3 DEF Browser!Authorize

LEMMA FinishStep ==
    ASSUME BrowserInv, NEW r \in Requests, Browser!Finish(r)
    PROVE  BrowserInv'
<1>0. /\ r \in AllCalls /\ call[r].at = "finishing"
      /\ UNCHANGED <<jar, flows, issued, ended, lapsed, revoked, spent, lost, signedOut>>
  BY DEF AllCalls, Browser!Finish, Browser!At, Browser!service, Browser!history
<1>1. /\ Moved(r) /\ call'[r].access = call[r].access /\ call'[r].refresh = call[r].refresh
      /\ call'[r].tokens = call[r].tokens /\ call'[r].runs = call[r].runs
      /\ call'[r].at = "answered" /\ call'[r].answer \in {"ok", "stale"}
  BY <1>0, AnswerMoves, "ok" \in Answers, "stale" \in Answers DEF Answers, Browser!Finish
<1>2. CallIsSound(r)'
  BY <1>0, <1>1, SoundElsewhere, NothingIssued DEF NotRun, Carrying
<1>. QED  BY <1>0, <1>1, <1>2, CallAlone

LEMMA SendAgainStep ==
    ASSUME BrowserInv, NEW r \in Requests, Browser!SendAgain(r)
    PROVE  BrowserInv'
<1>0. /\ r \in AllCalls /\ call[r].at \in NotRun
      /\ UNCHANGED <<jar, flows, issued, ended, lapsed, revoked, spent, lost, signedOut>>
  BY DEF AllCalls, NotRun, Browser!SendAgain, Browser!At, Browser!service, Browser!history
<1>1. call[r].kind \in Kinds
  BY <1>0, CallTyped DEF Record
<1>. DEFINE sent == Browser!Sent(r, call[r].kind)
            row == [sent EXCEPT !.again = TRUE]
<1>2. /\ sent \in Record /\ sent.runs = call[r].runs
      /\ \/ /\ sent.at = "answered" /\ sent.answer = "denied" /\ sent.tokens = call[r].tokens
            /\ sent.access = call[r].access /\ sent.refresh = call[r].refresh
         \/ /\ sent.at = "arrived" /\ sent.tokens = None
            /\ sent.access = jar.access /\ sent.refresh = jar.refresh
  BY <1>0, <1>1, SentEffect
<1>3. call' = [call EXCEPT ![r] = row]
  BY DEF Browser!SendAgain
<1>. HIDE DEF sent
<1>4. /\ row \in Record /\ row.at = sent.at /\ row.answer = sent.answer
      /\ row.tokens = sent.tokens /\ row.access = sent.access /\ row.refresh = sent.refresh
      /\ row.runs = sent.runs
  BY <1>2, AgainRecord
<1>. HIDE DEF row
<1>. QED  BY <1>0, <1>2, <1>3, <1>4, Carried, Denied

LEMMA BeginRenewalStep ==
    ASSUME BrowserInv, NEW p \in Pages, Browser!BeginRenewal(p)
    PROVE  BrowserInv'
<1>0. /\ p \in AllCalls /\ call[p].at = "idle"
      /\ UNCHANGED <<jar, flows, issued, ended, lapsed, revoked, spent, lost, signedOut>>
  BY DEF AllCalls, Browser!BeginRenewal, Browser!At, Browser!service, Browser!history
<1>1. call[p] \in Record /\ call[p].tokens = None /\ call[p].runs = 0 /\ CallIsSound(p)
  BY <1>0, CallTyped DEF CallIsSound, NotRun, Carrying
<1>2. ASSUME NEW code \in {"denied", "required"},
             call' = [call EXCEPT ![p] = [call[p] EXCEPT !.at = "answered", !.answer = code]]
      PROVE  BrowserInv'
  <2>. DEFINE row == [call[p] EXCEPT !.at = "answered", !.answer = code]
  <2>1. /\ row \in Record /\ row.at = "answered" /\ row.answer = code
        /\ row.access = call[p].access /\ row.refresh = call[p].refresh
        /\ row.tokens = call[p].tokens /\ row.runs = call[p].runs
    <3>1. code \in Answers
      BY DEF Answers
    <3>. QED  BY <1>1, <3>1, AnsweredRecord
  <2>2. call' = [call EXCEPT ![p] = row]
    BY <1>2
  <2>. HIDE DEF row
  <2>3. Moved(p) /\ call'[p] = row
    BY <1>0, <2>1, <2>2, RowMoves
  <2>4. CallIsSound(p)'
    BY <1>0, <1>1, <2>1, <2>3, SoundElsewhere, NothingIssued DEF NotRun
  <2>. QED  BY <1>0, <2>1, <2>3, <2>4, CallAlone
<1>3. CASE call' = [call EXCEPT ![p] = [Browser!Carry(p, "renewal") EXCEPT !.at = "renewing"]]
  <2>. DEFINE sent == Browser!Carry(p, "renewal")
              row == [sent EXCEPT !.at = "renewing"]
  <2>1. /\ sent \in Record /\ sent.tokens = None
        /\ sent.access = jar.access /\ sent.refresh = jar.refresh /\ sent.runs = call[p].runs
    <3>1. "renewal" \in Kinds
      BY DEF Kinds
    <3>. QED  BY <1>0, <3>1, CarryEffect
  <2>2. call' = [call EXCEPT ![p] = row]
    BY <1>3
  <2>. HIDE DEF sent
  <2>3. /\ row \in Record /\ row.at = "renewing" /\ row.tokens = None
        /\ row.access = jar.access /\ row.refresh = jar.refresh /\ row.runs = call[p].runs
    BY <2>1, PlacedRecord, "renewing" \in Places DEF Places
  <2>. HIDE DEF row
  <2>. QED  BY <1>0, <2>2, <2>3, Carried DEF NotRun
<1>. QED  BY <1>2, <1>3 DEF Browser!BeginRenewal

\* The token endpoint appends a pair of the session of the one it spends.
LEMMA IssueGrows ==
    ASSUME BrowserInv, NEW n \in Pairs, Browser!Issue(n), Len(issued) < MaxIssued,
           lost \subseteq lost', lost' \subseteq lost \cup {Len(issued')},
           UNCHANGED <<ended, lapsed, revoked, signedOut>>
    PROVE  /\ Grown /\ Len(issued') = Len(issued) + 1 /\ issued'[Len(issued')] = issued[n]
           /\ spent' = spent \cup {n} /\ Pairs' = 1 .. Len(issued) + 1 /\ n \in Pairs'
<1>1. issued \in Seq(1 .. MaxSignIns) /\ Len(issued) \in Nat /\ n \in 1 .. Len(issued)
      /\ issued[n] \in 1 .. MaxSignIns
  BY PairIsIssued DEF BrowserInv, Typed, Pairs
<1>2. issued' = Append(issued, issued[n]) /\ spent' = spent \cup {n}
  BY DEF Browser!Issue
<1>3. /\ issued' \in Seq(1 .. MaxSignIns) /\ Len(issued') = Len(issued) + 1
      /\ issued'[Len(issued) + 1] = issued[n]
      /\ \A k \in 1 .. Len(issued) : issued'[k] = issued[k]
  BY <1>1, <1>2
<1>4. Pairs' = 1 .. Len(issued) + 1 /\ Pairs \subseteq Pairs' /\ n \in Pairs'
  BY <1>1, <1>3 DEF Pairs
<1>5. lapsed \cup revoked \cup spent \cup lost \subseteq Pairs /\ ended \subseteq 1 .. MaxSignIns
      /\ signedOut \subseteq ended
  BY DEF BrowserInv, Typed, SignedOutIsOver
<1>6. lapsed' \cup revoked' \cup spent' \cup lost' \subseteq Pairs'
  <2>1. Len(issued') \in Pairs'
    BY <1>1, <1>3, <1>4
  <2>2. lapsed' \subseteq Pairs' /\ revoked' \subseteq Pairs' /\ spent' \subseteq Pairs'
    BY <1>2, <1>4, <1>5
  <2>3. lost' \subseteq Pairs'
    BY <1>4, <1>5, <2>1
  <2>. QED  BY <2>2, <2>3
<1>7. Len(issued') <= MaxIssued /\ Len(issued) <= Len(issued')
  BY <1>1, <1>3, SessionsAssumption
<1>8. Grown
  BY <1>2, <1>3, <1>5, <1>6, <1>7 DEF Grown, Pairs
<1>. QED  BY <1>2, <1>3, <1>4, <1>8

LEMMA GrantedPair ==
    ASSUME BrowserInv, NEW c \in AllCalls, Browser!Grants(call[c].refresh)
    PROVE  call[c].refresh \in Pairs
BY DEF Browser!Grants, Pairs

\* Once spent, a refresh token grants nothing.
LEMMA SpentGrantsNothing ==
    ASSUME NEW n, n \in spent
    PROVE  ~Browser!Grants(n)
BY DEF Browser!Grants

LEMMA RenewStep ==
    ASSUME BrowserInv, NEW c \in AllCalls, Browser!Renew(c)
    PROVE  BrowserInv'
<1>0. /\ call[c].at = "renewing" /\ Len(issued) < MaxIssued
      /\ UNCHANGED <<jar, flows, ended, lapsed, revoked, lost, signedOut>>
  BY DEF Browser!Renew, Browser!At, Browser!history
<1>1. call[c] \in Record /\ call[c].tokens = None /\ CallIsSound(c) /\ call[c].runs <= 1
  BY <1>0, CallTyped DEF CallIsSound, Carrying
<1>2. CASE /\ ~Browser!Grants(call[c].refresh) /\ Browser!Answer(c, Browser!Refusal(c))
           /\ UNCHANGED <<issued, spent>>
  <2>1. Browser!Refusal(c) \in {"ended", "refused"} /\ Browser!Refusal(c) \in Answers
    BY DEF Browser!Refusal, Answers
  <2>2. /\ Moved(c) /\ call'[c].access = call[c].access /\ call'[c].refresh = call[c].refresh
        /\ call'[c].tokens = call[c].tokens /\ call'[c].runs = call[c].runs
        /\ call'[c].at = "answered" /\ call'[c].answer \in {"ended", "refused"}
    BY <1>2, <2>1, AnswerMoves
  <2>3. CallIsSound(c)'
    BY <1>0, <1>1, <1>2, <2>2, SoundElsewhere, NothingIssued DEF NotRun, Browser!Grants
  <2>. QED  BY <1>0, <1>2, <2>2, <2>3, CallAlone
<1>3. CASE /\ Browser!Grants(call[c].refresh) /\ Browser!Issue(call[c].refresh)
           /\ call' = [call EXCEPT ![c].at = "confirming", ![c].tokens = Len(issued')]
  <2>. DEFINE new == Len(issued')
              row == [call[c] EXCEPT !.at = "confirming", !.tokens = new]
  <2>1. call[c].refresh \in Pairs
    BY <1>3, GrantedPair
  <2>2. /\ Grown /\ new = Len(issued) + 1 /\ issued'[new] = issued[call[c].refresh]
        /\ spent' = spent \cup {call[c].refresh} /\ Pairs' = 1 .. Len(issued) + 1
        /\ call[c].refresh \in Pairs'
    BY <1>0, <1>3, <2>1, IssueGrows
  <2>3. Len(issued) \in Nat /\ new \in Nat /\ new \in Pairs' /\ new # None /\ Len(issued) < new
    BY <2>2, PairIsIssued, SessionsAssumption
  <2>4. call' = [call EXCEPT ![c] = row]
    BY <1>3, CallTyped
  <2>. HIDE DEF new
  <2>5. /\ row \in Record /\ row.at = "confirming" /\ row.tokens = new
        /\ row.access = call[c].access /\ row.refresh = call[c].refresh /\ row.runs = call[c].runs
    <3>1. "confirming" \in Places /\ new \in Number
      BY <2>3 DEF Places, Number
    <3>. QED  BY <1>1, <3>1 DEF Record
  <2>. HIDE DEF row
  <2>6. Moved(c) /\ call'[c] = row
    BY <2>4, <2>5, RowMoves
  <2>7. CallIsSound(c)'
    BY <1>1, <2>2, <2>3, <2>5, <2>6 DEF CallIsSound, NotRun, Carrying
  <2>8. PairHandled(c) /\ SpentForAPair(c)
    BY <1>1, <2>1, <2>2, <2>3, <2>5, <2>6 DEF PairHandled, SpentForAPair, new
  <2>. QED  BY <1>0, <2>2, <2>5, <2>6, <2>7, <2>8, OneCallMoves
<1>. QED  BY <1>2, <1>3 DEF Browser!Renew

LEMMA ConfirmStep ==
    ASSUME BrowserInv, NEW c \in AllCalls, Browser!Confirm(c)
    PROVE  BrowserInv'
<1>0. /\ call[c].at = "confirming"
      /\ UNCHANGED <<jar, flows, issued, ended, lapsed, revoked, spent, lost, signedOut>>
  BY DEF Browser!Confirm, Browser!At, Browser!service, Browser!history
<1>1. call[c] \in Record /\ CallIsSound(c) /\ call[c].refresh \in spent /\ call[c].runs <= 1
      /\ Grown
  BY <1>0, CallTyped, NothingIssued DEF CallIsSound
<1>2. CASE /\ ~Browser!Valid(call[c].tokens)
           /\ call' = [call EXCEPT ![c] = [call[c] EXCEPT !.at = "answered",
                                              !.answer = Browser!Refusal(c), !.tokens = None]]
  <2>. DEFINE code == Browser!Refusal(c)
              row == [call[c] EXCEPT !.at = "answered", !.answer = code, !.tokens = None]
  <2>1. code \in {"ended", "refused"} /\ code \in Answers /\ "answered" \in Places /\ None \in Number
    BY DEF Browser!Refusal, Answers, Places, Number
  <2>2. call' = [call EXCEPT ![c] = row]
    BY <1>2
  <2>. HIDE DEF code
  <2>3. /\ row \in Record /\ row.at = "answered" /\ row.answer = code /\ row.tokens = None
        /\ row.access = call[c].access /\ row.refresh = call[c].refresh /\ row.runs = call[c].runs
    BY <1>1, <2>1 DEF Record
  <2>. HIDE DEF row
  <2>4. Moved(c) /\ call'[c] = row
    BY <2>2, <2>3, RowMoves
  <2>5. CallIsSound(c)'
    <3>1. ~Browser!Grants(call[c].refresh)'
      BY <1>0, <1>1, <2>3, <2>4 DEF Browser!Grants
    <3>2. code # "required"
      BY <2>1
    <3>. QED  BY <1>0, <1>1, <2>3, <2>4, <3>1, <3>2 DEF CallIsSound, NotRun, Carrying, Pairs, Browser!Grants
  <2>6. PairHandled(c)
    <3>1. CASE call[c].tokens # None
      <4>1. call[c].tokens \in Pairs /\ call[c].tokens \notin lapsed \cup revoked
        BY <1>1, <3>1 DEF CallIsSound, BrowserInv, NewPairsAreUnused, NewPairIsUnused
      <4>2. issued[call[c].tokens] \in ended
        BY <1>2, <4>1 DEF Browser!Valid, Pairs
      <4>. QED  BY <2>3, <2>4, <4>2 DEF PairHandled
    <3>2. CASE call[c].tokens = None
      BY <2>3, <2>4, <3>2 DEF PairHandled
    <3>. QED  BY <3>1, <3>2
  <2>. QED  BY <1>0, <1>1, <2>3, <2>4, <2>5, <2>6, OneCallMoves DEF SpentForAPair
<1>3. CASE call' = [call EXCEPT ![c] = [call[c] EXCEPT !.at = "answered", !.answer = "renewed"]]
  <2>. DEFINE row == [call[c] EXCEPT !.at = "answered", !.answer = "renewed"]
  <2>1. /\ row \in Record /\ row.at = "answered" /\ row.answer = "renewed"
        /\ row.access = call[c].access /\ row.refresh = call[c].refresh
        /\ row.tokens = call[c].tokens /\ row.runs = call[c].runs
    <3>1. "renewed" \in Answers
      BY DEF Answers
    <3>. QED  BY <1>1, <3>1, AnsweredRecord
  <2>2. call' = [call EXCEPT ![c] = row]
    BY <1>3
  <2>. HIDE DEF row
  <2>3. Moved(c) /\ call'[c] = row
    BY <2>1, <2>2, RowMoves
  <2>4. CallIsSound(c)'
    BY <1>0, <1>1, <2>1, <2>3, SoundElsewhere DEF NotRun, Carrying
  <2>. QED  BY <1>0, <2>1, <2>3, <2>4, CallAlone
<1>4. CASE call' = [call EXCEPT ![c] = [call[c] EXCEPT !.at = "finishing"]]
  <2>1. Browser!Goto(c, "finishing")
    BY <1>4, CallTyped DEF Browser!Goto
  <2>2. /\ Moved(c) /\ call'[c].access = call[c].access /\ call'[c].refresh = call[c].refresh
        /\ call'[c].tokens = call[c].tokens /\ call'[c].runs = call[c].runs
        /\ call'[c].at = "finishing"
    <3>1. "finishing" \in Places
      BY DEF Places
    <3>. QED  BY <2>1, <3>1, GotoMoves
  <2>3. CallIsSound(c)'
    BY <1>0, <1>1, <2>2, SoundElsewhere DEF NotRun, Carrying
  <2>. QED  BY <1>0, <2>2, <2>3, CallAlone
<1>. QED  BY <1>2, <1>3, <1>4 DEF Browser!Confirm

LEMMA RevokeAccessStep ==
    ASSUME BrowserInv, NEW r \in Requests, Browser!RevokeAccess(r)
    PROVE  BrowserInv'
<1>0. /\ r \in AllCalls /\ call[r].at = "arrived"
      /\ revoked' = revoked \cup ({call[r].access} \ {None})
      /\ UNCHANGED <<jar, flows, issued, ended, lapsed, spent, lost, signedOut>>
  BY DEF AllCalls, Browser!RevokeAccess, Browser!At, Browser!history
<1>1. /\ call[r].tokens = None /\ CallIsSound(r) /\ call[r].access \in Pairs \cup {None}
  BY <1>0, CallTyped DEF CallIsSound, Carrying
<1>2. /\ Moved(r) /\ call'[r].access = call[r].access /\ call'[r].refresh = call[r].refresh
      /\ call'[r].tokens = call[r].tokens /\ call'[r].runs = call[r].runs
      /\ call'[r].at = "revoking"
  BY <1>0, GotoMoves, "revoking" \in Places DEF Places, Browser!RevokeAccess
<1>3. Grown
  BY <1>0, <1>1 DEF BrowserInv, Typed, SignedOutIsOver, Grown, Pairs
<1>4. CallIsSound(r)'
  BY <1>0, <1>1, <1>2, <1>3, SoundElsewhere DEF NotRun
<1>. QED  BY <1>0, <1>2, <1>3, <1>4, OneCallMoves DEF PairHandled, SpentForAPair

LEMMA RevokeRefreshStep ==
    ASSUME BrowserInv, NEW r \in Requests, Browser!RevokeRefresh(r)
    PROVE  BrowserInv'
<1>0. /\ r \in AllCalls /\ call[r].at = "revoking"
      /\ ended' = IF call[r].refresh = None THEN ended ELSE ended \cup {issued[call[r].refresh]}
      /\ signedOut' = signedOut \cup Browser!Sessions(r)
      /\ UNCHANGED <<jar, flows, issued, lapsed, revoked, spent, lost>>
  BY DEF AllCalls, Browser!RevokeRefresh, Browser!At, Browser!Report
<1>1. /\ call[r].tokens = None /\ CallIsSound(r) /\ call[r].access = call[r].refresh
      /\ call[r].refresh \in Pairs \cup {None}
  BY <1>0, CallTyped DEF CallIsSound, Carrying
<1>2. /\ Moved(r) /\ call'[r].access = call[r].access /\ call'[r].refresh = call[r].refresh
      /\ call'[r].tokens = call[r].tokens /\ call'[r].runs = call[r].runs
      /\ call'[r].at = "answered" /\ call'[r].answer = "signedOut"
  BY <1>0, AnswerMoves, "signedOut" \in Answers DEF Answers, Browser!RevokeRefresh, Browser!Report
<1>3. Browser!Sessions(r) \subseteq ended'
  BY <1>0, <1>1 DEF Browser!Sessions
<1>4. ended \subseteq ended' /\ ended' \subseteq 1 .. MaxSignIns
  BY <1>0, <1>1, PairIsIssued DEF BrowserInv, Typed
<1>5. signedOut' \subseteq ended'
  BY <1>0, <1>3, <1>4 DEF BrowserInv, SignedOutIsOver
<1>6. Grown
  BY <1>0, <1>4, <1>5 DEF BrowserInv, Typed, Grown, Pairs
<1>7. CallIsSound(r)'
  <2>1. /\ call'[r].at \notin NotRun /\ call'[r].at # "confirming"
        /\ call'[r].answer \notin {"ended", "refused", "required"}
    BY <1>2 DEF NotRun
  <2>2. r \in AllCalls /\ call[r].tokens = None
    BY <1>0, <1>1
  <2>. QED  BY <1>2, <1>6, <2>1, <2>2, SoundElsewhere
<1>. QED  BY <1>0, <1>2, <1>6, <1>7, OneCallMoves DEF PairHandled, SpentForAPair

\* An answer that never came, or a response lost on its way, keeps at most the
\* tokens of the call from the browser.
LEMMA LossGrows ==
    ASSUME BrowserInv, NEW c \in AllCalls, lost' = lost \cup ({call[c].tokens} \ {None}),
           UNCHANGED <<issued, ended, lapsed, revoked, spent, signedOut>>
    PROVE  Grown
<1>1. call[c].tokens \in Pairs \cup {None}
  BY CallTyped DEF CallIsSound
<1>. QED  BY <1>1 DEF BrowserInv, Typed, SignedOutIsOver, Grown, Pairs

LEMMA LoseResponseStep ==
    ASSUME BrowserInv, NEW r \in Requests, Browser!LoseResponse(r)
    PROVE  BrowserInv'
<1>0. /\ r \in AllCalls /\ lost' = lost \cup ({call[r].tokens} \ {None})
      /\ UNCHANGED <<jar, flows, issued, ended, lapsed, revoked, spent, signedOut>>
  BY DEF AllCalls, Browser!LoseResponse, Browser!service
<1>. DEFINE row == Browser!Over(r)
<1>1. /\ row \in Record /\ row.at = "done" /\ row.runs = call[r].runs
      /\ row.access = None /\ row.refresh = None /\ row.tokens = None
  BY <1>0, OverRecord
<1>2. call' = [call EXCEPT ![r] = row]
  BY DEF Browser!LoseResponse
<1>. HIDE DEF row
<1>3. Moved(r) /\ call'[r] = row
  BY <1>0, <1>1, <1>2, RowMoves
<1>4. Grown
  BY <1>0, LossGrows
<1>5. call[r].runs <= 1
  BY <1>0, CallTyped DEF CallIsSound
<1>6. CallIsSound(r)'
  BY <1>1, <1>3, <1>5 DEF CallIsSound, NotRun
<1>7. PairHandled(r) /\ SpentForAPair(r)
  BY <1>0, <1>1, <1>3 DEF PairHandled, SpentForAPair
<1>. QED  BY <1>0, <1>1, <1>3, <1>4, <1>6, <1>7, OneCallMoves

LEMMA UnavailableStep ==
    ASSUME BrowserInv, NEW c \in AllCalls, Browser!Unavailable(c)
    PROVE  BrowserInv'
<1>0. /\ UNCHANGED <<jar, flows, ended, lapsed, revoked, signedOut>>
  BY DEF Browser!Unavailable
<1>1. call[c] \in Record /\ CallIsSound(c) /\ call[c].runs <= 1 /\ call[c].access = call[c].refresh
      /\ call[c].access \in Pairs \cup {None}
  BY CallTyped DEF CallIsSound
<1>. DEFINE row == [call[c] EXCEPT !.at = "answered", !.answer = "unavailable", !.tokens = None]
<1>2. call' = [call EXCEPT ![c] = row]
  BY CallTyped DEF Browser!Unavailable
<1>3. /\ row \in Record /\ row.at = "answered" /\ row.answer = "unavailable" /\ row.tokens = None
      /\ row.access = call[c].access /\ row.refresh = call[c].refresh /\ row.runs = call[c].runs
  <2>1. "answered" \in Places /\ "unavailable" \in Answers /\ None \in Number
    BY DEF Places, Answers, Number
  <2>. QED  BY <1>1, <2>1 DEF Record
<1>. HIDE DEF row
<1>4. Moved(c) /\ call'[c] = row
  BY <1>2, <1>3, RowMoves
<1>5. ASSUME Grown PROVE CallIsSound(c)'
  <2>1. Pairs \subseteq Pairs'
    BY <1>5, PairIsIssued DEF Grown, Pairs
  <2>. QED  BY <1>1, <1>3, <1>4, <2>1 DEF CallIsSound, NotRun
<1>6. CASE UNCHANGED <<issued, spent>> /\ lost' = lost \cup ({call[c].tokens} \ {None})
  <2>1. Grown
    BY <1>0, <1>6, LossGrows
  <2>2. PairHandled(c) /\ SpentForAPair(c)
    BY <1>3, <1>4, <1>6 DEF PairHandled, SpentForAPair
  <2>. QED  BY <1>0, <1>3, <1>4, <1>5, <2>1, <2>2, OneCallMoves
<1>7. CASE /\ call[c].at = "renewing" /\ Browser!Grants(call[c].refresh) /\ Len(issued) < MaxIssued
           /\ Browser!Issue(call[c].refresh) /\ lost' = lost \cup {Len(issued')}
  <2>1. call[c].refresh \in Pairs
    BY <1>7, GrantedPair
  <2>2. Grown /\ spent' = spent \cup {call[c].refresh}
    BY <1>0, <1>7, <2>1, IssueGrows
  <2>3. lost' # {} /\ call[c].tokens = None
    BY <1>1, <1>7 DEF CallIsSound, Carrying
  <2>4. PairHandled(c) /\ SpentForAPair(c)
    BY <1>3, <1>4, <2>1, <2>2, <2>3 DEF PairHandled, SpentForAPair
  <2>. QED  BY <1>0, <1>3, <1>4, <1>5, <2>2, <2>4, OneCallMoves
<1>. QED  BY <1>6, <1>7 DEF Browser!Unavailable, Browser!At

\* An answer reaches the browser: the jar takes what it sets or clears, and
\* the call gives up its tokens.
LEMMA Delivered ==
    ASSUME BrowserInv, NEW c \in AllCalls, call[c].at = "answered", jar' = Browser!Applied(c),
           UNCHANGED <<flows, issued, ended, lapsed, revoked, spent, lost, signedOut>>,
           call' \in [AllCalls -> Record], CallsAreSound', call'[c].tokens = None,
           \A d \in AllCalls : /\ d # c => call'[d].tokens = call[d].tokens
                               /\ call'[d].access \in {call[d].access, None}
    PROVE  BrowserInv'
<1>. DEFINE new == call[c].tokens
<1>1. /\ jar \in Jar /\ jar.access = jar.refresh /\ jar.access \in Pairs \cup {None}
      /\ new \in Pairs \cup {None} /\ new \in Number
      /\ new # None => new \notin lapsed \cup revoked \cup spent
  BY JarFacts, CallTyped, PairIsIssued
     DEF CallIsSound, BrowserInv, NewPairsAreUnused, NewPairIsUnused, Number
<1>2. \/ jar' = Browser!EmptyJar
      \/ new = None /\ jar' = jar
      \/ new = None /\ jar' = [jar EXCEPT !.csrf = TRUE]
      \/ new # None /\ jar' = [jar EXCEPT !.access = new, !.refresh = new]
  BY DEF Browser!Applied
<1>3. /\ jar' \in Jar /\ jar'.access = jar'.refresh
      /\ \/ jar'.access = None
         \/ new = None /\ jar'.access = jar.access /\ jar'.refresh = jar.refresh
         \/ new # None /\ jar'.access = new /\ jar'.refresh = new
  <2>. HIDE DEF new
  <2>1. CASE jar' = Browser!EmptyJar
    BY <2>1 DEF Browser!EmptyJar, Jar
  <2>2. CASE new = None /\ jar' = jar
    BY <1>1, <2>2
  <2>3. CASE new # None /\ jar' = [jar EXCEPT !.access = new, !.refresh = new]
    BY <1>1, <2>3 DEF Jar, Number
  <2>4. CASE new = None /\ jar' = [jar EXCEPT !.csrf = TRUE]
    BY <1>1, <2>4 DEF Jar
  <2>. QED  BY <1>2, <2>1, <2>2, <2>3, <2>4
<1>4. Pairs' = Pairs /\ None \notin Pairs
  BY PairIsIssued DEF Pairs
<1>5. Typed' /\ JarHoldsOnePair' /\ SignedOutIsOver'
  BY <1>1, <1>3, <1>4 DEF BrowserInv, Typed, JarHoldsOnePair, SignedOutIsOver
<1>6. NewPairsAreUnused'
  <2>. SUFFICES ASSUME NEW d \in AllCalls, call'[d].tokens # None
                PROVE  LET n == call'[d].tokens IN
                       /\ n \notin lapsed \cup revoked \cup spent
                       /\ n # jar'.access
                       /\ \A e \in AllCalls : call'[e].access # n /\ (e # d => call'[e].tokens # n)
    BY DEF NewPairsAreUnused, NewPairIsUnused
  <2>. DEFINE n == call'[d].tokens
  <2>1. d # c /\ n = call[d].tokens /\ n # None
    OBVIOUS
  <2>2. /\ n \notin lapsed \cup revoked \cup spent /\ n # jar.access
        /\ \A e \in AllCalls : call[e].access # n /\ (e # d => call[e].tokens # n)
    BY <2>1 DEF BrowserInv, NewPairsAreUnused, NewPairIsUnused
  <2>3. n # jar'.access
    BY <1>3, <2>1, <2>2
  <2>4. \A e \in AllCalls : call'[e].access # n
    BY <2>1, <2>2
  <2>5. \A e \in AllCalls : e # d => call'[e].tokens # n
    BY <2>1, <2>2
  <2>. QED  BY <2>2, <2>3, <2>4, <2>5
<1>7. RenewedTokensReachTheBrowser'
  <2>. SUFFICES ASSUME jar'.refresh \in spent, issued[jar'.refresh] \notin ended, lost = {}
                PROVE  \E d \in AllCalls : /\ call'[d].tokens # None
                                           /\ issued[call'[d].tokens] = issued[jar'.refresh]
    BY DEF RenewedTokensReachTheBrowser, Browser!RenewedTokensReachTheBrowser, AllCalls, Browser!Calls
  <2>1. spent \subseteq Pairs
    BY DEF BrowserInv, Typed
  <2>2. new = None /\ jar'.refresh = jar.refresh
    BY <1>1, <1>3, <1>4, <2>1
  <2>3. PICK d \in AllCalls : call[d].tokens # None /\ issued[call[d].tokens] = issued[jar.refresh]
    BY <2>2 DEF BrowserInv, RenewedTokensReachTheBrowser, Browser!RenewedTokensReachTheBrowser,
       AllCalls, Browser!Calls
  <2>4. call'[d].tokens = call[d].tokens
    BY <2>2, <2>3
  <2>. QED  BY <2>2, <2>3, <2>4
<1>. QED  BY <1>5, <1>6, <1>7 DEF BrowserInv

\* A call that is over, or waits, holds nothing.
LEMMA EmptyIsSound ==
    ASSUME BrowserInv, NEW c \in AllCalls, call'[c].access = None,
           call'[c].refresh = None, call'[c].tokens = None,
           call'[c].at \in {"idle", "done", "waiting", "retrying"}, call'[c].runs <= 1,
           call'[c].at # "done" => call'[c].runs = 0
    PROVE  CallIsSound(c)'
BY DEF CallIsSound, NotRun

LEMMA WaitingRecord ==
    ASSUME NEW r \in Record, NEW k \in Kinds
    PROVE  LET a == [r EXCEPT !.at = "waiting", !.kind = k] IN
           /\ a \in Record /\ a.at = "waiting" /\ a.tokens = r.tokens
           /\ a.access = r.access /\ a.refresh = r.refresh /\ a.runs = r.runs
<1>1. "waiting" \in Places
  BY DEF Places
<1>. QED  BY <1>1 DEF Record

LEMMA ReceiveStep ==
    ASSUME BrowserInv, NEW r \in Requests, Browser!Receive(r)
    PROVE  BrowserInv'
<1>0. /\ r \in AllCalls /\ call[r].at = "answered" /\ jar' = Browser!Applied(r)
      /\ UNCHANGED <<flows, issued, ended, lapsed, revoked, spent, lost, signedOut>>
  BY DEF AllCalls, Browser!Receive, Browser!At, Browser!service, Browser!history
<1>1. call[r] \in Record /\ call[r].runs <= 1 /\ call[r].kind \in Kinds
  BY <1>0, CallTyped DEF CallIsSound, Record
<1>2. call[r].answer = "required" => call[r].runs = 0
  BY <1>0, CallTyped DEF CallIsSound
<1>. DEFINE over == Browser!Over(r)
            kept == call[r].kind
            wait == [over EXCEPT !.at = "waiting", !.kind = kept]
<1>3. /\ over \in Record /\ over.at = "done" /\ over.runs = call[r].runs
      /\ over.access = None /\ over.refresh = None /\ over.tokens = None
  BY <1>0, OverRecord
<1>4. kept \in Kinds
  BY <1>1
<1>5. \/ call' = [call EXCEPT ![r] = over]
      \/ call' = [call EXCEPT ![r] = wait] /\ call[r].answer = "required"
  BY DEF Browser!Receive, Browser!Awaits
<1>. HIDE DEF over, kept
<1>6. /\ wait \in Record /\ wait.at = "waiting" /\ wait.runs = call[r].runs
      /\ wait.access = None /\ wait.refresh = None /\ wait.tokens = None
  BY <1>3, <1>4, WaitingRecord
<1>. HIDE DEF wait
<1>7. ASSUME NEW row \in Record, call' = [call EXCEPT ![r] = row],
             row.at \in {"waiting", "done"}, row.runs = call[r].runs,
             row.access = None, row.refresh = None, row.tokens = None,
             row.at = "waiting" => row.runs = 0
      PROVE  BrowserInv'
  <2>1. Moved(r) /\ call'[r] = row
    BY <1>0, <1>7, RowMoves
  <2>2. CallIsSound(r)'
    BY <1>0, <1>1, <1>7, <2>1, EmptyIsSound
  <2>3. CallsAreSound'
    <3>. SUFFICES ASSUME NEW d \in AllCalls, d # r PROVE CallIsSound(d)'
      BY <2>2 DEF CallsAreSound
    <3>. QED  BY <1>0, <2>1, NothingIssued, SoundStays DEF Moved
  <2>4. \A d \in AllCalls : /\ d # r => call'[d].tokens = call[d].tokens
                            /\ call'[d].access \in {call[d].access, None}
    BY <1>7, <2>1 DEF Moved
  <2>. QED  BY <1>0, <1>7, <2>1, <2>3, <2>4, Delivered DEF Moved
<1>8. CASE call' = [call EXCEPT ![r] = over]
  BY <1>3, <1>7, <1>8
<1>9. CASE call' = [call EXCEPT ![r] = wait] /\ call[r].answer = "required"
  BY <1>2, <1>6, <1>7, <1>9
<1>. QED  BY <1>5, <1>8, <1>9

LEMMA ReceiveRenewalStep ==
    ASSUME BrowserInv, NEW p \in Pages, Browser!ReceiveRenewal(p)
    PROVE  BrowserInv'
<1>. DEFINE renewed == call[p].answer = "renewed"
            Woken(c) == c \in Requests /\ PageOf[c] = p /\ call[c].at = "waiting"
<1>0. /\ p \in AllCalls /\ call[p].at = "answered" /\ jar' = Browser!Applied(p)
      /\ UNCHANGED <<flows, issued, ended, lapsed, revoked, spent, lost, signedOut>>
  BY DEF AllCalls, Browser!ReceiveRenewal, Browser!At, Browser!service, Browser!history
<1>1. call' = [c \in AllCalls |->
          IF c = p THEN Browser!Idle
          ELSE IF Woken(c) THEN IF renewed THEN [call[c] EXCEPT !.at = "retrying"] ELSE Browser!Over(c)
          ELSE call[c]]
  BY DEF Browser!ReceiveRenewal, Browser!Woken, Browser!At, Browser!Calls, AllCalls
<1>. HIDE DEF renewed
<1>2. ASSUME NEW d \in AllCalls
      PROVE  /\ call'[d] \in Record /\ CallIsSound(d)'
             /\ d = p => call'[d].tokens = None
             /\ d # p => call'[d].tokens = call[d].tokens
             /\ call'[d].access \in {call[d].access, None}
  <2>1. CASE d = p
    <3>1. call'[d] = Browser!Idle
      BY <1>1, <2>1
    <3>2. CallIsSound(d)'
      BY <3>1, IdleRecord, EmptyIsSound
    <3>. QED  BY <2>1, <3>1, <3>2, IdleRecord
  <2>2. CASE d # p /\ Woken(d)
    <3>1. /\ call[d] \in Record /\ call[d].at = "waiting" /\ call[d].tokens = None
          /\ call[d].runs = 0 /\ CallIsSound(d)
      BY <2>2, CallTyped DEF CallIsSound, NotRun, Carrying
    <3>2. CASE renewed
      <4>. DEFINE row == [call[d] EXCEPT !.at = "retrying"]
      <4>1. call'[d] = row
        BY <1>1, <2>2, <3>2
      <4>2. /\ row \in Record /\ row.at = "retrying" /\ row.tokens = None /\ row.runs = 0
            /\ row.access = call[d].access /\ row.refresh = call[d].refresh
        BY <3>1, PlacedRecord, "retrying" \in Places DEF Places
      <4>. HIDE DEF row
      <4>3. CallIsSound(d)'
        BY <1>0, <3>1, <4>1, <4>2 DEF CallIsSound, NotRun, Pairs
      <4>. QED  BY <2>2, <3>1, <4>1, <4>2, <4>3
    <3>3. CASE ~renewed
      <4>1. call'[d] = Browser!Over(d)
        BY <1>1, <2>2, <3>3
      <4>2. CallIsSound(d)'
        BY <3>1, <4>1, OverRecord, EmptyIsSound
      <4>. QED  BY <2>2, <3>1, <4>1, <4>2, OverRecord
    <3>. QED  BY <3>2, <3>3
  <2>3. CASE d # p /\ ~Woken(d)
    <3>1. call'[d] = call[d]
      BY <1>1, <2>3
    <3>2. CallIsSound(d)'
      BY <1>0, <3>1, NothingIssued, SoundStays
    <3>. QED  BY <2>3, <3>1, <3>2, CallTyped
  <2>. QED  BY <2>1, <2>2, <2>3
<1>3. call' \in [AllCalls -> Record]
  <2>1. \A c \in AllCalls : call'[c] \in Record
    BY <1>2
  <2>2. call' = [c \in AllCalls |-> call'[c]]
    BY <1>1
  <2>. QED  BY <2>1, <2>2
<1>4. CallsAreSound'
  BY <1>2 DEF CallsAreSound
<1>. QED  BY <1>0, <1>2, <1>3, <1>4, Delivered

\* Neither the flow cookie nor the one against forgery opens anything by itself.
LEMMA FlowAlone ==
    ASSUME BrowserInv, jar' \in Jar, jar'.access = jar.access, jar'.refresh = jar.refresh,
           flows' \in 0 .. MaxSignIns,
           UNCHANGED <<issued, ended, lapsed, revoked, spent, call, lost, signedOut>>
    PROVE  BrowserInv'
<1>1. Typed' /\ JarHoldsOnePair' /\ SignedOutIsOver'
  BY DEF BrowserInv, Typed, JarHoldsOnePair, SignedOutIsOver, Pairs
<1>2. CallsAreSound'
  BY NothingIssued, SoundStays DEF CallsAreSound
<1>3. NewPairsAreUnused'
  BY DEF BrowserInv, NewPairsAreUnused, NewPairIsUnused
<1>4. RenewedTokensReachTheBrowser'
  BY DEF BrowserInv, RenewedTokensReachTheBrowser, Browser!RenewedTokensReachTheBrowser
<1>. QED  BY <1>1, <1>2, <1>3, <1>4 DEF BrowserInv

LEMMA FlowStep ==
    ASSUME BrowserInv, Browser!BeginLogin \/ Browser!ForgetFlow \/ Browser!ForgetCsrf
    PROVE  BrowserInv'
<1>1. jar \in Jar /\ flows \in 0 .. MaxSignIns
  BY DEF BrowserInv, Typed
<1>2. CASE Browser!BeginLogin
  <2>1. flows + 1 \in 1 .. MaxSignIns
    BY <1>1, <1>2, SessionsAssumption DEF Browser!BeginLogin
  <2>2. jar' = [jar EXCEPT !.flow = flows + 1] /\ flows' = flows + 1
    BY <1>2 DEF Browser!BeginLogin, Browser!NewFlow
  <2>3. jar' \in Jar /\ jar'.access = jar.access /\ jar'.refresh = jar.refresh
    BY <1>1, <2>1, <2>2 DEF Jar
  <2>4. flows' \in 0 .. MaxSignIns
    BY <2>1, <2>2
  <2>. QED  BY <1>2, <2>3, <2>4, FlowAlone DEF Browser!BeginLogin, Browser!service, Browser!history
<1>3. CASE Browser!ForgetFlow
  <2>1. jar' \in Jar /\ jar'.access = jar.access /\ jar'.refresh = jar.refresh
    BY <1>1, <1>3 DEF Jar, Browser!ForgetFlow
  <2>. QED  BY <1>1, <1>3, <2>1, FlowAlone DEF Browser!ForgetFlow, Browser!service, Browser!history
<1>4. CASE Browser!ForgetCsrf
  <2>1. jar' \in Jar /\ jar'.access = jar.access /\ jar'.refresh = jar.refresh
    BY <1>1, <1>4 DEF Jar, Browser!ForgetCsrf
  <2>. QED  BY <1>1, <1>4, <2>1, FlowAlone DEF Browser!ForgetCsrf, Browser!service, Browser!history
<1>. QED  BY <1>2, <1>3, <1>4

LEMMA CallbackStep ==
    ASSUME BrowserInv, Browser!Callback
    PROVE  BrowserInv'
<1>. DEFINE new == Len(issued')
<1>0. /\ jar.flow # None /\ Len(issued) < MaxIssued /\ issued' = Append(issued, jar.flow)
      /\ jar' = [access |-> new, refresh |-> new, flow |-> None, csrf |-> TRUE]
      /\ UNCHANGED <<flows, ended, lapsed, revoked, spent, call, lost, signedOut>>
  BY DEF Browser!Callback, Browser!Exchanged, Browser!history
<1>1. /\ issued \in Seq(1 .. MaxSignIns) /\ Len(issued) \in Nat /\ jar.flow \in 1 .. MaxSignIns
      /\ lapsed \cup revoked \cup spent \cup lost \subseteq Pairs
  BY <1>0, PairIsIssued DEF BrowserInv, Typed, Jar
<1>2. /\ issued' \in Seq(1 .. MaxSignIns) /\ new = Len(issued) + 1 /\ new \in Nat
      /\ \A n \in 1 .. Len(issued) : issued'[n] = issued[n]
  BY <1>0, <1>1
<1>3. /\ Pairs' = 1 .. new /\ Pairs = 1 .. Len(issued) /\ Pairs \subseteq Pairs'
      /\ new \in Pairs' /\ new \notin Pairs /\ new <= MaxIssued /\ Len(issued) <= new
  BY <1>0, <1>1, <1>2, SessionsAssumption DEF Pairs
<1>4. jar'.access = new /\ jar'.refresh = new
  BY <1>0
<1>. HIDE DEF new
<1>5. Grown
  BY <1>0, <1>1, <1>2, <1>3 DEF BrowserInv, Typed, SignedOutIsOver, Grown, new
<1>6. jar' \in Jar
  BY <1>0, <1>2 DEF Jar
<1>7. Typed' /\ JarHoldsOnePair' /\ SignedOutIsOver'
  BY <1>0, <1>3, <1>4, <1>5, <1>6
     DEF BrowserInv, Typed, JarHoldsOnePair, SignedOutIsOver, Grown
<1>8. CallsAreSound'
  BY <1>0, <1>5, SoundStays DEF CallsAreSound
<1>9. NewPairsAreUnused'
  <2>1. \A c \in AllCalls : call[c].tokens # new
    BY <1>2, <1>3, CallTyped, SessionsAssumption DEF CallIsSound
  <2>. QED  BY <1>0, <1>4, <2>1 DEF BrowserInv, NewPairsAreUnused, NewPairIsUnused
<1>10. RenewedTokensReachTheBrowser'
  BY <1>0, <1>1, <1>3, <1>4 DEF RenewedTokensReachTheBrowser, Browser!RenewedTokensReachTheBrowser
<1>. QED  BY <1>7, <1>8, <1>9, <1>10 DEF BrowserInv

LEMMA LapseStep ==
    ASSUME BrowserInv, NEW n \in 1 .. Len(issued), Browser!Lapse(n)
    PROVE  BrowserInv'
<1>0. /\ lapsed' = lapsed \cup {n} /\ \A c \in AllCalls : call[c].tokens # n
      /\ UNCHANGED <<jar, flows, issued, ended, revoked, spent, call, lost, signedOut>>
  BY DEF Browser!Lapse, Browser!Calls, AllCalls, Browser!history
<1>1. Grown
  BY <1>0 DEF BrowserInv, Typed, SignedOutIsOver, Grown, Pairs
<1>2. Typed' /\ JarHoldsOnePair' /\ SignedOutIsOver'
  BY <1>0 DEF BrowserInv, Typed, JarHoldsOnePair, SignedOutIsOver, Pairs
<1>3. CallsAreSound'
  BY <1>0, <1>1, SoundStays DEF CallsAreSound
<1>4. NewPairsAreUnused'
  BY <1>0 DEF BrowserInv, NewPairsAreUnused, NewPairIsUnused
<1>5. RenewedTokensReachTheBrowser'
  BY <1>0 DEF BrowserInv, RenewedTokensReachTheBrowser, Browser!RenewedTokensReachTheBrowser
<1>. QED  BY <1>2, <1>3, <1>4, <1>5 DEF BrowserInv

LEMMA UnmovedStep ==
    ASSUME BrowserInv, UNCHANGED Browser!vars
    PROVE  BrowserInv'
<1>1. UNCHANGED <<jar, flows, issued, ended, lapsed, revoked, spent, call, lost, signedOut>>
  BY DEF Browser!vars, Browser!service, Browser!history
<1>. QED  BY <1>1, FlowAlone DEF BrowserInv, Typed

LEMMA BrowserStep == BrowserInv /\ [Browser!Next]_Browser!vars => BrowserInv'
<1>. SUFFICES ASSUME BrowserInv, [Browser!Next]_Browser!vars PROVE BrowserInv'
  OBVIOUS
<1>1. CASE Browser!BeginLogin \/ Browser!ForgetFlow \/ Browser!ForgetCsrf
  BY <1>1, FlowStep
<1>2. CASE Browser!Callback
  BY <1>2, CallbackStep
<1>3. ASSUME NEW r \in Requests, NEW kind \in Browser!Work \cup {"signOut"}, Browser!Send(r, kind)
      PROVE  BrowserInv'
  BY <1>3, SendStep DEF Browser!Work
<1>4. ASSUME NEW r \in Requests,
             Browser!Authenticate(r) \/ Browser!Run(r) \/ Browser!Authorize(r) \/ Browser!Finish(r)
      PROVE  BrowserInv'
  BY <1>4, AuthenticateStep, RunStep, AuthorizeStep, FinishStep
<1>5. ASSUME NEW r \in Requests, Browser!RevokeAccess(r) \/ Browser!RevokeRefresh(r)
      PROVE  BrowserInv'
  BY <1>5, RevokeAccessStep, RevokeRefreshStep
<1>6. ASSUME NEW r \in Requests,
             Browser!Receive(r) \/ Browser!SendAgain(r) \/ Browser!LoseResponse(r)
      PROVE  BrowserInv'
  BY <1>6, ReceiveStep, SendAgainStep, LoseResponseStep
<1>7. ASSUME NEW c \in AllCalls, Browser!Renew(c) \/ Browser!Confirm(c) \/ Browser!Unavailable(c)
      PROVE  BrowserInv'
  BY <1>7, RenewStep, ConfirmStep, UnavailableStep
<1>8. ASSUME NEW p \in Pages, Browser!BeginRenewal(p) \/ Browser!ReceiveRenewal(p)
      PROVE  BrowserInv'
  BY <1>8, BeginRenewalStep, ReceiveRenewalStep
<1>9. ASSUME NEW n \in 1 .. Len(issued), Browser!Lapse(n)
      PROVE  BrowserInv'
  BY <1>9, LapseStep
<1>10. CASE UNCHANGED Browser!vars
  BY <1>10, UnmovedStep
<1>. QED  BY <1>1, <1>2, <1>3, <1>4, <1>5, <1>6, <1>7, <1>8, <1>9, <1>10
     DEF Browser!Next, Browser!Calls, AllCalls

-----------------------------------------------------------------------------
(* The theorems.                                                           *)

\* The invariant holds of any browser: its cookies are one pair, new tokens
\* have one holder until the browser has them, and what was reported as signed
\* out is over at the identity service.
THEOREM BrowserInvariance == Browser!Spec => []BrowserInv
BY BrowserInit, BrowserStep, PTL DEF Browser!Spec

\* Tokens, sessions and calls keep their types and bounds, and a request that
\* waits for a renewal has not run.
THEOREM BrowserTypes == Browser!Spec => []Browser!TypeOK
<1>1. BrowserInv => Browser!TypeOK
  <2>. SUFFICES ASSUME BrowserInv PROVE Browser!TypeOK
    OBVIOUS
  <2>1. /\ Len(issued) \in Nat /\ Len(issued) <= MaxIssued /\ issued \in Seq(1 .. MaxSignIns)
        /\ Pairs \cup {None} \subseteq Browser!Tokens
    BY PairIsIssued, SessionsAssumption DEF BrowserInv, Typed, Pairs, Browser!Tokens
  <2>2. jar \in [access : Browser!Tokens, refresh : Browser!Tokens,
                 flow : 1 .. MaxSignIns \cup {None}, csrf : BOOLEAN]
    BY <2>1, JarFacts DEF Jar
  <2>3. ended \cup signedOut \subseteq 1 .. MaxSignIns
    BY DEF BrowserInv, Typed, SignedOutIsOver
  <2>4. lapsed \cup revoked \cup spent \cup lost \subseteq 1 .. Len(issued)
    BY DEF BrowserInv, Typed, Pairs
  <2>5. ASSUME NEW c \in Browser!Calls
        PROVE  /\ call[c].access \in Browser!Tokens /\ call[c].refresh \in Browser!Tokens
               /\ call[c].tokens \in Browser!Tokens
               /\ Browser!At(c, "waiting") => call[c].runs = 0
    <3>1. c \in AllCalls
      BY DEF AllCalls, Browser!Calls
    <3>. QED  BY <2>1, <3>1, CallTyped DEF CallIsSound, NotRun, Browser!At
  <2>. QED  BY <2>1, <2>2, <2>3, <2>4, <2>5 DEF Browser!TypeOK
<1>. QED  BY <1>1, BrowserInvariance, PTL

\* Once the user was told "signed_out", no token of that session opens the
\* reader again, whatever renewals of it were under way (logout).
THEOREM SignOutStays == Browser!Spec => []SignOutIsFinal
<1>1. BrowserInv => SignOutIsFinal
  BY DEF BrowserInv, SignedOutIsOver, SignOutIsFinal, Browser!SignOutIsFinal, Browser!Valid
<1>. QED  BY <1>1, BrowserInvariance, PTL

\* A refresh token that was spent while its session lives was spent for tokens
\* that the browser gets with the answer, unless the network or the service's
\* outage keeps them back (_finish_browser_response).
THEOREM RenewedTokensReach == Browser!Spec => []RenewedTokensReachTheBrowser
<1>1. BrowserInv => RenewedTokensReachTheBrowser
  BY DEF BrowserInv
<1>. QED  BY <1>1, BrowserInvariance, PTL

\* A request's operation runs at most once, however often its page renews and
\* sends again (ApiClient.request).
THEOREM WorkIsNotRepeated == Browser!Spec => []WorkRunsOnce
<1>1. BrowserInv => WorkRunsOnce
  BY CallTyped DEF WorkRunsOnce, Browser!WorkRunsOnce, CallIsSound, AllCalls
<1>. QED  BY <1>1, BrowserInvariance, PTL

\* An answer that clears the cookies is given only when the session is over,
\* its token revoked, or its refresh token used up; an outage clears nothing
\* (_clear_auth_cookies).
THEOREM ClearedWhenOver == Browser!Spec => []ClearedOnlyWhenOver
<1>1. BrowserInv => ClearedOnlyWhenOver
  BY CallTyped DEF ClearedOnlyWhenOver, Browser!ClearedOnlyWhenOver, CallIsSound, Browser!Calls,
     AllCalls, Browser!At
<1>. QED  BY <1>1, BrowserInvariance, PTL

\* The host's account commands and the browser each keep their types when
\* either moves by itself, as the run explores them.
THEOREM IdentityTypes == MCSpec => []IdentityTypeOK
<1>1. MCInit => Init /\ Browser!Init
  BY DEF MCInit
<1>2. [MCNext]_<<side, vars, browserVars>> => [Next]_vars /\ [Browser!Next]_Browser!vars
  BY DEF MCNext, vars, browserVars, Browser!vars, Browser!service, Browser!history
<1>3. MCSpec => Spec /\ Browser!Spec
  BY <1>1, <1>2, PTL DEF MCSpec, Spec, Browser!Spec
<1>4. TypeOK /\ Browser!TypeOK => IdentityTypeOK
  BY DEF IdentityTypeOK
<1>. QED  BY <1>3, <1>4, TypeCorrect, BrowserTypes, PTL

=============================================================================
