----------------------------- MODULE MCIdentity -----------------------------
(* The two sides of the identity service, each explored by itself: the     *)
(* host's account commands, and a browser with two requests of one page    *)
(* and another page that resumes its session.                              *)
EXTENDS AccountControl, TLC

CONSTANTS Pages, Requests, PageOf, None, MaxSignIns, MaxIssued, MaxFaults,
          o1, o2, r1, r2, reader, resume

ASSUME SessionsAssumption ==
    /\ PageOf \in [Requests -> Pages]
    /\ Pages \cap Requests = {}
    /\ MaxSignIns \in Nat /\ MaxIssued \in Nat /\ MaxFaults \in Nat
    /\ None \notin Nat

VARIABLES
    side,  \* which of the two moves
    jar, flows, issued, ended, lapsed, revoked, spent, call, lost, signedOut, faults

Browser == INSTANCE BrowserSessions
browserVars == <<jar, flows, issued, ended, lapsed, revoked, spent, call, lost, signedOut, faults>>

MCInit == side \in {"host", "browser"} /\ Init /\ Browser!Init
MCNext ==
    \/ side = "host" /\ Next /\ UNCHANGED <<side, browserVars>>
    \/ side = "browser" /\ Browser!Next /\ UNCHANGED <<side, vars>>
MCSpec == MCInit /\ [][MCNext]_<<side, vars, browserVars>>

(* Both sides keep their types and bounds.                                 *)
IdentityTypeOK == TypeOK /\ Browser!TypeOK
SignOutIsFinal == Browser!SignOutIsFinal
RenewedTokensReachTheBrowser == Browser!RenewedTokensReachTheBrowser
WorkRunsOnce == Browser!WorkRunsOnce
ClearedOnlyWhenOver == Browser!ClearedOnlyWhenOver

OnePage == [r \in {r1, r2} |-> reader]
Symmetry == Permutations({o1, o2}) \cup Permutations({r1, r2})
=============================================================================
