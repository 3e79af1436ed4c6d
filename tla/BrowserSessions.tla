--------------------------- MODULE BrowserSessions ---------------------------
(***************************************************************************)
(* One browser, its cookies, and the requests its pages have under way:    *)
(* sign-in, the work of browser_operation (POST) and browser_document      *)
(* (GET), renewal and sign-out (product_server.py), the identity client    *)
(* (identity.py) and the page's client (frontend/src/api.ts), which renews *)
(* once for all its requests and sends again what was refused before it    *)
(* ran.                                                                    *)
(*                                                                         *)
(* The n-th pair of an access and a refresh token is the number n.  Which  *)
(* account a token is for, and what is searched, is in ReaderRequests.     *)
(***************************************************************************)
EXTENDS Naturals, Sequences, FiniteSets

CONSTANTS
    Pages,       \* open pages; each has one ApiClient
    Requests,    \* the requests its user makes, each once
    PageOf,      \* the page of a request
    None,
    MaxSignIns,  \* bound: sign-ins
    MaxIssued,   \* bound: pairs of tokens the identity service ever issues
    MaxFaults    \* bound: outages of the service and lost responses

VARIABLES
    jar,       \* the cookies: access, refresh, flow, and whether csrf is set
    flows,     \* sign-in flows begun; the cookie and the code carry their number
    issued,    \* the session of each pair issued
    ended,     \* sessions that are over at the identity service
    lapsed,    \* access tokens whose time ran out
    revoked,   \* access tokens revoked by themselves
    spent,     \* refresh tokens used; each is good for one renewal
    call,      \* what each request, and each page's renewal, is at
    lost,      \* pairs that never reached the browser for want of the network
    signedOut, \* sessions whose end was reported to the user
    faults

service == <<issued, ended, lapsed, revoked, spent>>
history == <<lost, signedOut>>
vars == <<jar, flows, service, call, history, faults>>

Calls == Requests \cup Pages
EmptyJar == [access |-> None, refresh |-> None, flow |-> None, csrf |-> FALSE]
Idle == [at |-> "idle", kind |-> None, access |-> None, refresh |-> None,
         tokens |-> None, answer |-> None, runs |-> 0, again |-> FALSE, bare |-> FALSE]

Init ==
    /\ jar = EmptyJar
    /\ flows = 0
    /\ issued = <<>>
    /\ ended = {} /\ lapsed = {} /\ revoked = {} /\ spent = {}
    /\ call = [c \in Calls |-> Idle]
    /\ lost = {} /\ signedOut = {}
    /\ faults = 0

\* verify_token: what introspection answers.
Valid(n) == /\ n \in 1 .. Len(issued)
            /\ n \notin lapsed \cup revoked
            /\ issued[n] \notin ended
Grants(n) == n \in 1 .. Len(issued) /\ n \notin spent /\ issued[n] \notin ended

At(c, place) == call[c].at = place
Goto(c, place) == call' = [call EXCEPT ![c].at = place]
Answer(c, code) == call' = [call EXCEPT ![c].at = "answered", ![c].answer = code]
\* The cookies a request carries are those of the moment it is sent; bare, it
\* has none against forgery.
Carry(c, kind) == [call[c] EXCEPT !.at = "arrived", !.kind = kind, !.tokens = None,
                                  !.access = jar.access, !.refresh = jar.refresh,
                                  !.bare = ~jar.csrf]

-----------------------------------------------------------------------------
(* Sign-in.  The exchange and its answer are one step: the browser follows *)
(* a redirect and keeps nothing else waiting.                              *)

NewFlow == flows + 1
\* exchange_code: a code belongs to the flow whose verifier and nonce the
\* cookie holds, and opens a session.
Exchanged(flow) == Append(issued, flow)

\* The link to sign in is on pages shown to a reader without a valid session.
BeginLogin ==
    /\ flows < MaxSignIns
    /\ ~Valid(jar.access)
    /\ flows' = NewFlow
    /\ jar' = [jar EXCEPT !.flow = NewFlow]
    /\ UNCHANGED <<service, call, history, faults>>

\* The flow cookie lives ten minutes.
ForgetFlow ==
    /\ jar.flow # None
    /\ jar' = [jar EXCEPT !.flow = None]
    /\ UNCHANGED <<flows, service, call, history, faults>>

\* The csrf cookie lives eight hours from the sign-in, or from the last page
\* that set it; a renewal prolongs the other two.
ForgetCsrf ==
    /\ jar.csrf
    /\ jar' = [jar EXCEPT !.csrf = FALSE]
    /\ UNCHANGED <<flows, service, call, history, faults>>

\* A callback whose state is not that of the flow cookie changes nothing.
Callback ==
    /\ jar.flow # None
    /\ Len(issued) < MaxIssued
    /\ issued' = Exchanged(jar.flow)
    /\ jar' = [access |-> Len(issued'), refresh |-> Len(issued'), flow |-> None, csrf |-> TRUE]
    /\ UNCHANGED <<flows, ended, lapsed, revoked, spent, call, history, faults>>

Over(c) == [Idle EXCEPT !.at = "done", !.runs = call[c].runs]

-----------------------------------------------------------------------------
(* A request's work.                                                       *)

Work == {"operation", "document"}

\* Whatever is posted without the csrf cookie is denied (_valid_csrf).
Sent(r, kind) == IF kind \in {"operation", "signOut"} /\ ~jar.csrf
                 THEN [call[r] EXCEPT !.at = "answered", !.answer = "denied"]
                 ELSE Carry(r, kind)

Send(r, kind) ==
    /\ At(r, "idle")
    /\ call' = [call EXCEPT ![r] = Sent(r, kind)]
    /\ UNCHANGED <<jar, flows, service, history, faults>>

\* A document's link gets a page that renews instead, and with it a csrf
\* cookie if the request had none.
ResumesInstead(r) == call[r].kind = "document" /\ call[r].refresh # None

\* _browser_principal.
Authenticate(r) ==
    /\ At(r, "arrived") /\ call[r].kind \in Work
    /\ IF Valid(call[r].access) THEN Goto(r, "working")
       ELSE Answer(r, IF ResumesInstead(r) THEN "resumePage" ELSE "required")
    /\ UNCHANGED <<jar, flows, service, history, faults>>

Run(r) ==
    /\ At(r, "working")
    /\ call' = [call EXCEPT ![r].at = "authorizing", ![r].runs = @ + 1]
    /\ UNCHANGED <<jar, flows, service, history, faults>>

\* _post_work_identity, and the cookies _authorize_browser_result then clears.
Authorize(r) ==
    /\ At(r, "authorizing")
    /\ IF Valid(call[r].access) THEN Goto(r, "finishing")
       ELSE IF call[r].access \in lapsed /\ call[r].refresh # None THEN Goto(r, "renewing")
       ELSE Answer(r, "ended")
    /\ UNCHANGED <<jar, flows, service, history, faults>>

\* Mutant: work that could not be renewed asks to be authenticated like work
\* that has not begun.
RefusalAsRequired(c) == IF c \in Pages THEN "refused" ELSE "required"

\* What a grant that is refused means: to a request that has done its work,
\* and to a page that only renews.
Refusal(c) == IF c \in Pages THEN "refused" ELSE "ended"

Issue(n) ==
    /\ issued' = Append(issued, issued[n])
    /\ spent' = spent \cup {n}

\* The token endpoint, for a renewal and within a request.
Renew(c) ==
    /\ At(c, "renewing")
    /\ Len(issued) < MaxIssued
    /\ IF Grants(call[c].refresh)
       THEN /\ Issue(call[c].refresh)
            /\ call' = [call EXCEPT ![c].at = "confirming", ![c].tokens = Len(issued')]
       ELSE Answer(c, Refusal(c)) /\ UNCHANGED <<issued, spent>>
    /\ UNCHANGED <<jar, flows, ended, lapsed, revoked, history, faults>>

\* refresh and _authorize_browser_result verify the token they were given.
Confirm(c) ==
    /\ At(c, "confirming")
    /\ call' = [call EXCEPT ![c] =
           IF ~Valid(@.tokens)
           THEN [@ EXCEPT !.at = "answered", !.answer = Refusal(c), !.tokens = None]
           ELSE IF c \in Pages THEN [@ EXCEPT !.at = "answered", !.answer = "renewed"]
           ELSE [@ EXCEPT !.at = "finishing"]]
    /\ UNCHANGED <<jar, flows, service, history, faults>>

\* Mutant: stale sources are reported without the tokens of the renewal.
FinishDroppingTokens(r) ==
    /\ At(r, "finishing")
    /\ \E code \in {"ok", "stale"} :
          call' = [call EXCEPT ![r].at = "answered", ![r].answer = code,
                               ![r].tokens = IF code = "stale" THEN None ELSE @]
    /\ UNCHANGED <<jar, flows, service, history, faults>>

\* validate_result, then _finish_browser_response whatever it said.
Finish(r) ==
    /\ At(r, "finishing")
    /\ \E code \in {"ok", "stale"} : Answer(r, code)
    /\ UNCHANGED <<jar, flows, service, history, faults>>

-----------------------------------------------------------------------------
(* Sign-out, and the service out of reach.                                 *)

RevokeAccess(r) ==
    /\ At(r, "arrived") /\ call[r].kind = "signOut"
    /\ revoked' = revoked \cup ({call[r].access} \ {None})
    /\ Goto(r, "revoking")
    /\ UNCHANGED <<jar, flows, issued, ended, lapsed, spent, history, faults>>

Sessions(r) == {issued[n] : n \in {call[r].access, call[r].refresh} \ {None}}
Report(r) ==
    /\ Answer(r, "signedOut")
    /\ signedOut' = signedOut \cup Sessions(r)

\* Mutant: the sign-out is reported once the access token is revoked.
ReportEarly(r) ==
    /\ At(r, "revoking")
    /\ Report(r)
    /\ UNCHANGED <<jar, flows, service, lost, faults>>

\* Revoking a refresh token ends its session at the identity service.
RevokeRefresh(r) ==
    /\ At(r, "revoking")
    /\ ended' = IF call[r].refresh = None THEN ended ELSE ended \cup {issued[call[r].refresh]}
    /\ Report(r)
    /\ UNCHANGED <<jar, flows, issued, lapsed, revoked, spent, lost, faults>>

Consults == {"arrived", "authorizing", "renewing", "confirming", "revoking"}

\* Mutant: an outage is taken for a refusal.
UnavailableRefuses(c) ==
    /\ call[c].at \in Consults
    /\ faults < MaxFaults
    /\ faults' = faults + 1
    /\ \/ UNCHANGED <<issued, spent>> /\ lost' = lost \cup ({call[c].tokens} \ {None})
       \/ /\ At(c, "renewing") /\ Grants(call[c].refresh) /\ Len(issued) < MaxIssued
          /\ Issue(call[c].refresh) /\ lost' = lost \cup {Len(issued')}
    /\ call' = [call EXCEPT ![c].at = "answered", ![c].answer = Refusal(c), ![c].tokens = None]
    /\ UNCHANGED <<jar, flows, ended, lapsed, revoked, signedOut>>

\* request_json times out: 503, and a renewal the service made all the same
\* is lost.
Unavailable(c) ==
    /\ call[c].at \in Consults
    /\ faults < MaxFaults
    /\ faults' = faults + 1
    /\ \/ UNCHANGED <<issued, spent>> /\ lost' = lost \cup ({call[c].tokens} \ {None})
       \/ /\ At(c, "renewing") /\ Grants(call[c].refresh) /\ Len(issued) < MaxIssued
          /\ Issue(call[c].refresh) /\ lost' = lost \cup {Len(issued')}
    /\ call' = [call EXCEPT ![c].at = "answered", ![c].answer = "unavailable", ![c].tokens = None]
    /\ UNCHANGED <<jar, flows, ended, lapsed, revoked, signedOut>>

-----------------------------------------------------------------------------
(* The browser.                                                            *)

Clears == {"ended", "refused", "signedOut"}
\* _set_token_cookies, _clear_auth_cookies and _resume_page, as the browser
\* applies them.
Applied(c) == IF call[c].answer \in Clears THEN EmptyJar
              ELSE IF call[c].tokens # None
              THEN [jar EXCEPT !.access = call[c].tokens, !.refresh = call[c].tokens]
              ELSE IF call[c].answer = "resumePage" /\ call[c].bare THEN [jar EXCEPT !.csrf = TRUE]
              ELSE jar

\* ApiClient.request: only what was refused before it ran waits for a renewal.
Awaits(r) == call[r].answer = "required" /\ ~call[r].again /\ call[r].kind # "signOut"

Receive(r) ==
    /\ r \in Requests /\ At(r, "answered")
    /\ jar' = Applied(r)
    /\ call' = [call EXCEPT ![r] =
           IF Awaits(r) THEN [Over(r) EXCEPT !.at = "waiting", !.kind = call[r].kind] ELSE Over(r)]
    /\ UNCHANGED <<flows, service, history, faults>>

\* ApiClient.refresh: one renewal of a page at a time, for a request that
\* waits or for the page that resumes.
BeginRenewal(p) ==
    /\ At(p, "idle")
    /\ \/ \E r \in Requests : PageOf[r] = p /\ At(r, "waiting")
       \/ \A r \in Requests : PageOf[r] # p
    /\ call' = [call EXCEPT ![p] =
           IF ~jar.csrf THEN [@ EXCEPT !.at = "answered", !.answer = "denied"]
           ELSE IF jar.refresh = None THEN [@ EXCEPT !.at = "answered", !.answer = "required"]
           ELSE [Carry(p, "renewal") EXCEPT !.at = "renewing"]]
    /\ UNCHANGED <<jar, flows, service, history, faults>>

Woken(p, renewed) ==
    [c \in Calls |-> IF c = p THEN Idle
                     ELSE IF c \in Requests /\ PageOf[c] = p /\ At(c, "waiting")
                     THEN IF renewed THEN [call[c] EXCEPT !.at = "retrying"] ELSE Over(c)
                     ELSE call[c]]

\* All that wait for the renewal are told its end.
ReceiveRenewal(p) ==
    /\ p \in Pages /\ At(p, "answered")
    /\ jar' = Applied(p)
    /\ call' = Woken(p, call[p].answer = "renewed")
    /\ UNCHANGED <<flows, service, history, faults>>

SendAgain(r) ==
    /\ At(r, "retrying")
    /\ call' = [call EXCEPT ![r] = [Sent(r, call[r].kind) EXCEPT !.again = TRUE]]
    /\ UNCHANGED <<jar, flows, service, history, faults>>

\* The response of a request, or the request itself, is lost on its way.
LoseResponse(r) ==
    /\ r \in Requests /\ At(r, "answered")
    /\ faults < MaxFaults
    /\ faults' = faults + 1
    /\ lost' = lost \cup ({call[r].tokens} \ {None})
    /\ call' = [call EXCEPT ![r] = Over(r)]
    /\ UNCHANGED <<jar, flows, service, signedOut>>

\* Time runs out for an access token in use; it outlives the exchange that
\* issued it.
Lapse(n) ==
    /\ n \in ({jar.access} \cup {call[r].access : r \in Requests}) \ (lapsed \cup {None})
    /\ \A c \in Calls : call[c].tokens # n
    /\ lapsed' = lapsed \cup {n}
    /\ UNCHANGED <<jar, flows, issued, ended, revoked, spent, call, history, faults>>

-----------------------------------------------------------------------------

Next ==
    \/ BeginLogin \/ ForgetFlow \/ ForgetCsrf \/ Callback
    \/ \E r \in Requests, kind \in Work \cup {"signOut"} : Send(r, kind)
    \/ \E r \in Requests :
          \/ Authenticate(r) \/ Run(r) \/ Authorize(r) \/ Finish(r)
          \/ RevokeAccess(r) \/ RevokeRefresh(r)
          \/ Receive(r) \/ SendAgain(r) \/ LoseResponse(r)
    \/ \E c \in Calls : Renew(c) \/ Confirm(c) \/ Unavailable(c)
    \/ \E p \in Pages : BeginRenewal(p) \/ ReceiveRenewal(p)
    \/ \E n \in 1 .. Len(issued) : Lapse(n)

Spec == Init /\ [][Next]_vars

-----------------------------------------------------------------------------
(* Properties.                                                             *)

Tokens == 1 .. MaxIssued \cup {None}

TypeOK ==
    /\ jar \in [access : Tokens, refresh : Tokens, flow : 1 .. MaxSignIns \cup {None}, csrf : BOOLEAN]
    /\ issued \in Seq(1 .. MaxSignIns) /\ Len(issued) <= MaxIssued
    /\ ended \cup signedOut \subseteq 1 .. MaxSignIns
    /\ lapsed \cup revoked \cup spent \cup lost \subseteq 1 .. Len(issued)
    /\ \A c \in Calls :
          /\ call[c].access \in Tokens /\ call[c].refresh \in Tokens /\ call[c].tokens \in Tokens
          /\ At(c, "waiting") => call[c].runs = 0

\* Once the user was told "signed_out", nothing that was or will be issued to
\* that session opens the reader, whatever renewals were under way (logout).
SignOutIsFinal ==
    \A n \in 1 .. Len(issued) : issued[n] \in signedOut => ~Valid(n)

\* A refresh token is spent by its use, within a request or in a renewal: as
\* long as the session lives the browser gets what it was spent for, with any
\* answer, and only the network or the service's outage can keep it back
\* (_finish_browser_response).
RenewedTokensReachTheBrowser ==
    jar.refresh \in spent =>
        \/ issued[jar.refresh] \in ended
        \/ \E c \in Calls : call[c].tokens # None /\ issued[call[c].tokens] = issued[jar.refresh]
        \/ lost # {}

\* A request's operation runs once at most: what is sent again was refused
\* before it ran ("Never replay revoked, failed or timed-out model work",
\* api.ts:60).
WorkRunsOnce == \A r \in Requests : call[r].runs <= 1

\* Cookies are cleared only for a session that is over or being signed out,
\* or when another renewal used up the token; an outage clears nothing ("an
\* upstream outage returns 503 and retains credentials", AUTH_AND_MCP.md:34).
ClearedOnlyWhenOver ==
    \A c \in Calls :
        At(c, "answered") /\ call[c].answer \in {"ended", "refused"} =>
            call[c].access \in revoked \/ ~Grants(call[c].refresh)

\* "GET never refreshes credentials." (AUTH_AND_MCP.md:33)
GetNeverRefreshes ==
    \A r \in Requests : call[r].kind = "document" => call[r].tokens = None
=============================================================================
