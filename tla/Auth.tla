------------------------------- MODULE Auth -------------------------------
(***************************************************************************)
(* Who a request is served for (rinser/auth.go, jwt/): AuthFn looks for a  *)
(* token in the header, verifies it with the keys that were fetched when   *)
(* the service started, and puts the name of its user into the session of  *)
(* the request, which the handler then reads with GetEmail.  Requests of   *)
(* one session run at the same time, and users log in, log out and         *)
(* impersonate others meanwhile.                                           *)
(*                                                                         *)
(* Sessions and the login are those of the packages jaws and jawsauth, and *)
(* modelled as auth.go and rinse.go use them.  Segments of a token that do *)
(* not decode, parse or match are one case.                                *)
(***************************************************************************)
EXTENDS Naturals

CONSTANTS
    Requests,  \* goroutines that serve a request
    Sessions,  \* bound: sessions that are live at a time
    Users,     \* the names in logins, and in tokens
    Padded,    \* more names in tokens: those with blanks around them
    Bare,      \* what is left of each of them without the blanks
    Keys,      \* the keys of the issuer, and those of others
    Kids,      \* their names
    KeySets,   \* what the endpoint for keys may answer when the service starts:
               \*   for each name a key or what is wrong with it
    Tokens,    \* the tokens of requests
    MaxTime    \* bound: the time of the last step of the clock

\* No name, no session.
NoUser    == "no user"
NoSession == "no session"

\* Why a name has no key: it is not there (none is if the endpoint did not
\* answer), its certificate comes with others, or cannot be parsed.
NoKey == {"absent", "chain", "broken"}

\* strings.TrimSpace, which may leave nothing.
Trim(n) == IF n \in Padded THEN Bare[n] ELSE n

Names == Users \union Padded \union {NoUser}

Token == [readable : BOOLEAN, exp : Nat, kid : Kids, signer : Keys,
          alg : BOOLEAN, preferred : Names, unique : Names]

\* What a request may have in its header.
Header == {{t} : t \in Tokens} \union {{}}

ASSUME NameAssumption ==
    /\ NoUser \notin Users \union Padded
    /\ NoSession \notin Sessions
    /\ Users \intersect Padded = {}
    /\ Bare \in [Padded -> Users \union {NoUser}]

ASSUME KeyAssumption ==
    /\ Keys \intersect NoKey = {}
    /\ KeySets \subseteq [Kids -> Keys \union NoKey]
    /\ Tokens \subseteq Token
    /\ MaxTime \in Nat

VARIABLES
    clock,    \* the time, in the seconds of Expires
    keys,     \* Rinse.JWTPublicKeys
    live,     \* the sessions there are
    email,    \* the value each has for SessionEmailKey
    loggedIn, \* the sessions jawsauth takes for logged in
    pc,       \* what the goroutine of each request does next
    cookie,   \* the session of the request
    token,    \* the token of the request: a set that is empty if it has none
    alone,    \* history: has nobody else named a user for the session of the
              \*   request since it came?
    vouched   \* history: the trimmed names of those who logged in, were
              \*   impersonated or came with a token that was valid

sessionVars == <<live, email, loggedIn>>
requestVars == <<pc, cookie, token>>
vars        == <<clock, keys, sessionVars, requestVars, alone, vouched>>

Init ==
    /\ clock = 1
    /\ keys \in KeySets
    /\ live = {}
    /\ email = [s \in Sessions |-> NoUser]
    /\ loggedIn = {}
    /\ pc = [r \in Requests |-> "idle"]
    /\ cookie = [r \in Requests |-> NoSession]
    /\ token = [r \in Requests |-> {}]
    /\ alone = [r \in Requests |-> TRUE]
    /\ vouched = {}

-----------------------------------------------------------------------------
(* Tokens                                                                  *)

\* GetUsernameFromPayload
Username(t) == IF t.preferred # NoUser THEN t.preferred ELSE t.unique

\* An expiry that is missing is the second 0.
Expired(t) == t.exp < clock

\* FetchX09SignCert and ParseX09AsPublicKey find a key.
KeyFound(t) == keys[t.kid] \notin NoKey

\* Mutation: any key of that name will do.
SignatureSkipped(t) == t.alg

\* There is no method for an algorithm that is not known; its use is a panic,
\* which ends the request like an error.
SignatureMatches(t) == t.alg /\ keys[t.kid] = t.signer

VerifyJWT(t) == t.readable /\ ~Expired(t) /\ KeyFound(t) /\ SignatureMatches(t)

\* What a token has to be, whatever the order of the checks.
Valid(t) ==
    /\ t.readable
    /\ t.alg
    /\ clock <= t.exp
    /\ keys[t.kid] = t.signer
    /\ {t.preferred, t.unique} # {NoUser}

-----------------------------------------------------------------------------
(* Requests                                                                *)

Active(q, s) == pc[q] # "idle" /\ cookie[q] = s

\* For whom the handler of a request with token t ought to act.
UserOf(t) == {Trim(Username(x)) : x \in t}

\* Requests at work in session s are not alone there any more.
Disturb(s) == alone' = [q \in Requests |-> alone[q] /\ ~Active(q, s)]

\* The request is answered; its goroutine is free for another.
Answer(r) ==
    /\ pc' = [pc EXCEPT ![r] = "idle"]
    /\ cookie' = [cookie EXCEPT ![r] = NoSession]
    /\ token' = [token EXCEPT ![r] = {}]

\* A request comes, with or without a session and a token.  A header without
\* the form of a token is refused at once and not modelled.
Arrive(r, s, t) ==
    /\ pc[r] = "idle"
    /\ s \in live \union {NoSession}
    /\ pc' = [pc EXCEPT ![r] = IF t = {} THEN "wrap" ELSE "verify"]
    /\ cookie' = [cookie EXCEPT ![r] = s]
    /\ token' = [token EXCEPT ![r] = t]
    /\ LET rivals == {q \in Requests : /\ Active(q, s) /\ s # NoSession
                                       /\ UserOf(token[q]) # UserOf(t)}
       IN alone' = [q \in Requests |->
                       IF q = r THEN \A x \in rivals : token[x] = {}
                       ELSE alone[q] /\ (q \in rivals => t = {})]
    /\ UNCHANGED <<clock, keys, sessionVars, vouched>>

\* CheckAuth up to GetUsernameFromPayload.  An error is answered with 400.
Verify(r) ==
    /\ pc[r] = "verify"
    /\ \E t \in token[r] :
          /\ IF VerifyJWT(t) /\ Username(t) # NoUser
             THEN pc' = [pc EXCEPT ![r] = "set"] /\ UNCHANGED <<cookie, token>>
             ELSE Answer(r)
          /\ vouched' = vouched \union (IF Valid(t) THEN {Trim(Username(t))} ELSE {})
    /\ UNCHANGED <<clock, keys, sessionVars, alone>>

\* Mutation: a session that has a user keeps it.
KeepUser(s, u) == IF email[s] = NoUser THEN u ELSE email[s]

\* The user of the token takes over the session, under the name in the token.
SetUser(s, u) == u

\* setUsernameInSession, which makes a session if the request has none or its
\* session is gone.
SetUsernameInSession(r) ==
    /\ pc[r] = "set"
    /\ pc' = [pc EXCEPT ![r] = "handle"]
    /\ \E s \in Sessions, t \in token[r] :
          /\ \/ s = cookie[r] /\ s \in live
             \/ /\ cookie[r] \notin live
                /\ s \notin live
                /\ \A q \in Requests \ {r} : ~Active(q, s)
          /\ live' = live \union {s}
          /\ email' = [email EXCEPT ![s] = SetUser(s, Username(t))]
          /\ cookie' = [cookie EXCEPT ![r] = s]
    /\ UNCHANGED <<clock, keys, loggedIn, token, alone, vouched>>

\* JawsAuth.Wrap serves a session that is logged in and redirects others.
Wrap(r) ==
    /\ pc[r] = "wrap"
    /\ IF cookie[r] \in loggedIn
       THEN pc' = [pc EXCEPT ![r] = "handle"] /\ UNCHANGED <<cookie, token>>
       ELSE Answer(r)
    /\ UNCHANGED <<clock, keys, sessionVars, alone, vouched>>

\* The handler, which reads GetEmail at some time, returns.
Return(r) ==
    /\ pc[r] = "handle"
    /\ Answer(r)
    /\ UNCHANGED <<clock, keys, sessionVars, alone, vouched>>

\* GetEmail: a request without a session has no user.
GetEmail(r) == IF cookie[r] \in live THEN Trim(email[cookie[r]]) ELSE NoUser

-----------------------------------------------------------------------------
(* Sessions, time                                                          *)

LogIn(s, u) ==
    /\ live' = live \union {s}
    /\ email' = [email EXCEPT ![s] = u]
    /\ loggedIn' = loggedIn \union {s}
    /\ vouched' = vouched \union {u}
    /\ Disturb(s)
    /\ UNCHANGED <<clock, keys, requestVars>>

\* uiImpersonate.JawsClick, on a setup page that an administrator opened in
\* this session, whoever its user is by now.  The name is trimmed, and may be
\* empty.
Impersonate(s, u) ==
    /\ s \in loggedIn
    /\ email' = [email EXCEPT ![s] = u]
    /\ vouched' = vouched \union {u}
    /\ Disturb(s)
    /\ UNCHANGED <<clock, keys, live, loggedIn, requestVars>>

\* A logout, or the session times out.
EndSession(s) ==
    /\ s \in live
    /\ live' = live \ {s}
    /\ email' = [email EXCEPT ![s] = NoUser]
    /\ loggedIn' = loggedIn \ {s}
    /\ Disturb(s)
    /\ UNCHANGED <<clock, keys, requestVars, vouched>>

Tick ==
    /\ clock < MaxTime
    /\ clock' = clock + 1
    /\ UNCHANGED <<keys, sessionVars, requestVars, alone, vouched>>

-----------------------------------------------------------------------------
Next ==
    \/ \E r \in Requests :
          \/ \E s \in Sessions \union {NoSession} :
                \E t \in Header : Arrive(r, s, t)
          \/ Verify(r) \/ SetUsernameInSession(r) \/ Wrap(r) \/ Return(r)
    \/ \E s \in Sessions, u \in Users : LogIn(s, u)
    \/ \E s \in Sessions, u \in Users \union {NoUser} : Impersonate(s, u)
    \/ \E s \in Sessions : EndSession(s)
    \/ Tick

Spec == Init /\ [][Next]_vars

-----------------------------------------------------------------------------
(* Properties                                                              *)

\* Every variable stays in its range.
TypeOK ==
    /\ clock \in Nat
    /\ keys \in KeySets
    /\ live \in SUBSET Sessions
    /\ email \in [Sessions -> Names]
    /\ loggedIn \in SUBSET live
    /\ pc \in [Requests -> {"idle", "verify", "set", "wrap", "handle"}]
    /\ cookie \in [Requests -> Sessions \union {NoSession}]
    /\ token \in [Requests -> Header]
    /\ alone \in [Requests -> BOOLEAN]
    /\ vouched \in SUBSET (Users \union {NoUser})

\* However requests, logins and the clock interleave, a session speaks for
\* nobody but those who logged in, whom an administrator impersonates, or who
\* sent a token that was valid at the time: a request that is refused leaves
\* no trace in its session (auth.go:42-59, jwt.go:75-125).  That the token is
\* still valid when the handler runs is not promised.
SessionIsVouched == \A s \in live : Trim(email[s]) \in vouched

\* The handler acts for the user of the token, though it asks the session and
\* not the token, unless others use the session for another user meanwhile: the
\* name without the blanks around it, so " ann" acts for "ann" and " " for
\* nobody (auth.go:24-30, 51, 62, rinse.go:263-268).
HandlerSeesTokenUser ==
    \A r \in Requests :
        pc[r] = "handle" /\ alone[r] =>
            \A t \in token[r] : GetEmail(r) = Trim(Username(t))

=============================================================================
