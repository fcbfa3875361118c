----------------------------- MODULE AuthProof -----------------------------
(***************************************************************************)
(* Proofs about Auth, for any requests, sessions, tokens and keys.         *)
(*                                                                         *)
(* That the handler sees the user of its token rests on what else is at    *)
(* work in the session: while nobody disturbed a request, all requests of  *)
(* its session that have a token name the same user.                       *)
(***************************************************************************)
EXTENDS Auth, TLAPS

\* Requests of one session that were not disturbed agree on its user.
Agreement ==
    \A q, r \in Requests :
        /\ pc[q] # "idle" /\ pc[r] # "idle"
        /\ cookie[q] = cookie[r] /\ cookie[r] # NoSession
        /\ token[q] # {} /\ token[r] # {}
        /\ alone[r]
        => UserOf(token[q]) = UserOf(token[r])

\* What the steps of a request know of it.
RequestInv ==
    \A r \in Requests :
        /\ pc[r] \in {"verify", "set"} => token[r] # {}
        /\ pc[r] = "wrap" => token[r] = {}
        /\ pc[r] = "set" => \A t \in token[r] : Trim(Username(t)) \in vouched
        /\ pc[r] = "handle" /\ token[r] # {} /\ alone[r] =>
               cookie[r] \in live /\ UserOf(token[r]) = {Trim(email[cookie[r]])}

IInv == TypeOK /\ RequestInv /\ Agreement /\ SessionIsVouched

-----------------------------------------------------------------------------
\* What is left of a name without the blanks around it is the name of a user,
\* or nothing; the names in logins have none.
LEMMA TrimmedName ==
    /\ \A n \in Names : Trim(n) \in Users \union {NoUser}
    /\ \A n \in Users \union {NoUser} : Trim(n) = n
BY NameAssumption DEF Names, Trim

\* A valid token passes all checks of CheckAuth, in whatever order they come,
\* and one that passes names a user.
LEMMA Decision ==
    ASSUME TypeOK, NEW t \in Tokens
    PROVE  /\ Valid(t) <=> VerifyJWT(t) /\ Username(t) # NoUser
           /\ Username(t) \in Names
           /\ Trim(Username(t)) \in Users \union {NoUser}
<1>1. /\ t.exp \in Nat /\ t.kid \in Kids /\ t.signer \in Keys
      /\ t.preferred \in Names /\ t.unique \in Names
      BY KeyAssumption DEF Token
<1>2. Username(t) \in Names
      BY <1>1 DEF Username
<1>3. clock <= t.exp <=> ~Expired(t)
      BY <1>1 DEF TypeOK, Expired
<1>4. keys[t.kid] = t.signer => KeyFound(t)
      BY <1>1, KeyAssumption DEF KeyFound
<1>5. {t.preferred, t.unique} # {NoUser} <=> Username(t) # NoUser
      BY DEF Username
<1> QED
    BY <1>2, <1>3, <1>4, <1>5, TrimmedName DEF Valid, VerifyJWT, SignatureMatches

\* The initial states satisfy the invariant.
LEMMA InitInv == Init => IInv
<1> SUFFICES ASSUME Init PROVE IInv
    OBVIOUS
<1>1. TypeOK
      BY DEF Init, TypeOK, Names, Header
<1>2. RequestInv /\ Agreement /\ SessionIsVouched
      BY DEF Init, RequestInv, Agreement, SessionIsVouched
<1> QED
    BY <1>1, <1>2 DEF IInv

\* A request comes.
LEMMA ArriveInv ==
    ASSUME IInv, NEW r \in Requests, NEW s \in Sessions \union {NoSession},
           NEW t \in Header, Arrive(r, s, t)
    PROVE  IInv'
<1> USE DEF IInv
<1>1. TypeOK'
      BY DEF TypeOK, Arrive, sessionVars
<1>2. RequestInv'
      BY DEF TypeOK, RequestInv, Arrive, sessionVars, UserOf, Username
<1>3. Agreement'
      BY DEF TypeOK, Agreement, Arrive, Active, UserOf, Username
<1>4. SessionIsVouched'
      BY DEF SessionIsVouched, Arrive, sessionVars
<1> QED
    BY <1>1, <1>2, <1>3, <1>4

\* A goroutine that is free again has nothing to keep.
LEMMA AnswerInv ==
    ASSUME IInv, NEW r \in Requests, Answer(r), vouched \subseteq vouched',
           vouched' \in SUBSET (Users \union {NoUser}),
           UNCHANGED <<clock, keys, live, email, loggedIn, alone>>
    PROVE  IInv'
<1> USE DEF IInv
<1>1. TypeOK'
      BY DEF TypeOK, Answer, Header
<1>2. RequestInv'
      BY DEF TypeOK, RequestInv, Answer, UserOf, Username
<1>3. Agreement'
      BY DEF TypeOK, Agreement, Answer, UserOf, Username
<1>4. SessionIsVouched'
      BY DEF SessionIsVouched
<1> QED
    BY <1>1, <1>2, <1>3, <1>4

\* Its token is looked at.
LEMMA VerifyInv ==
    ASSUME IInv, NEW r \in Requests, Verify(r)
    PROVE  IInv'
<1> USE DEF IInv
<1>1. PICK t \in token[r] :
          /\ IF VerifyJWT(t) /\ Username(t) # NoUser
             THEN pc' = [pc EXCEPT ![r] = "set"] /\ UNCHANGED <<cookie, token>>
             ELSE Answer(r)
          /\ vouched' = vouched \union
                            (IF Valid(t) THEN {Trim(Username(t))} ELSE {})
      BY DEF Verify
<1>2. t \in Tokens /\ token[r] = {t}
      BY DEF TypeOK, Header
<1>3. vouched \subseteq vouched' /\ vouched' \in SUBSET (Users \union {NoUser})
  <2>1. Trim(Username(t)) \in Users \union {NoUser}
        BY <1>2, Decision
  <2> QED
      BY <1>1, <2>1 DEF TypeOK
<1>4. UNCHANGED <<clock, keys, live, email, loggedIn, alone>>
      BY DEF Verify, sessionVars
<1>5. SessionIsVouched'
      BY <1>3, <1>4 DEF SessionIsVouched
<1>6. CASE VerifyJWT(t) /\ Username(t) # NoUser
  <2>1. pc' = [pc EXCEPT ![r] = "set"] /\ UNCHANGED <<cookie, token>>
        BY <1>1, <1>6
  <2>2. TypeOK'
        BY <1>3, <1>4, <2>1 DEF TypeOK
  <2>3. Trim(Username(t)) \in vouched'
        BY <1>1, <1>2, <1>6, Decision
  <2>4. RequestInv'
        BY <1>2, <1>3, <1>4, <2>1, <2>3 DEF TypeOK, RequestInv, UserOf, Username
  <2>5. Agreement'
    <3>1. pc[r] = "verify"
          BY DEF Verify
    <3>2. \A q \in Requests : pc'[q] # "idle" => pc[q] # "idle"
          BY <2>1, <3>1 DEF TypeOK
    <3> QED
        BY <1>4, <2>1, <3>2 DEF Agreement, UserOf, Username
  <2> QED
      BY <1>5, <2>2, <2>4, <2>5
<1>7. CASE ~(VerifyJWT(t) /\ Username(t) # NoUser)
  <2>1. Answer(r)
        BY <1>1, <1>7
  <2> QED
      BY <1>3, <1>4, <1>5, <2>1, AnswerInv
<1> QED
    BY <1>6, <1>7

\* The session is given its user: requests that were not disturbed have a token
\* of the same user, or work in another session.
LEMMA SetUsernameInv ==
    ASSUME IInv, NEW r \in Requests, SetUsernameInSession(r)
    PROVE  IInv'
<1> USE DEF IInv
<1>1. PICK s \in Sessions, t \in token[r] :
          /\ \/ s = cookie[r] /\ s \in live
             \/ /\ cookie[r] \notin live
                /\ s \notin live
                /\ \A q \in Requests \ {r} : ~Active(q, s)
          /\ live' = live \union {s}
          /\ email' = [email EXCEPT ![s] = Username(t)]
          /\ cookie' = [cookie EXCEPT ![r] = s]
      BY DEF SetUsernameInSession, SetUser
<1>2. /\ pc[r] = "set" /\ pc' = [pc EXCEPT ![r] = "handle"]
      /\ UNCHANGED <<clock, keys, loggedIn, token, alone, vouched>>
      BY DEF SetUsernameInSession
<1>3. t \in Tokens /\ token[r] = {t} /\ UserOf(token[r]) = {Trim(Username(t))}
      BY DEF TypeOK, Header, UserOf
<1>4. Username(t) \in Names /\ Trim(Username(t)) \in vouched
      BY <1>2, <1>3, Decision DEF RequestInv
<1>5. TypeOK'
      BY <1>1, <1>2, <1>4 DEF TypeOK, Names
<1>6. SessionIsVouched'
      BY <1>1, <1>2, <1>4 DEF SessionIsVouched, TypeOK
<1>7. UNCHANGED UserOf(token[r]) /\ \A q \in Requests : UNCHANGED UserOf(token[q])
      BY <1>2 DEF UserOf, Username
<1>8. Agreement'
      BY <1>1, <1>2, <1>7 DEF TypeOK, Agreement, Active
<1>9. RequestInv'
  <2>1. ASSUME NEW q \in Requests, q # r, pc[q] = "handle", token[q] # {},
               alone[q]
        PROVE  cookie[q] \in live' /\ UserOf(token[q]) = {Trim(email'[cookie[q]])}
    <3>1. cookie[q] \in live /\ UserOf(token[q]) = {Trim(email[cookie[q]])}
          BY <2>1 DEF RequestInv
    <3>2. CASE cookie[q] = s
      <4>1. s = cookie[r]
            BY <1>1, <2>1, <3>2 DEF Active
      <4>2. UserOf(token[q]) = UserOf(token[r])
            BY <1>2, <1>3, <2>1, <3>2, <4>1, NameAssumption DEF Agreement
      <4> QED
          BY <1>1, <1>3, <3>1, <3>2, <4>2 DEF TypeOK
    <3>3. CASE cookie[q] # s
          BY <1>1, <3>1, <3>3 DEF TypeOK
    <3> QED
        BY <3>2, <3>3
  <2>2. s \in live' /\ UserOf(token[r]) = {Trim(email'[s])}
        BY <1>1, <1>3 DEF TypeOK
  <2> QED
      BY <1>1, <1>2, <1>4, <1>7, <2>1, <2>2 DEF TypeOK, RequestInv, Username
<1> QED
    BY <1>5, <1>6, <1>8, <1>9

\* Logins, impersonation and logouts disturb the requests of their session.
LEMMA SessionInv ==
    ASSUME IInv, NEW s \in Sessions,
           \/ \E u \in Users : LogIn(s, u)
           \/ \E u \in Users \union {NoUser} : Impersonate(s, u)
           \/ EndSession(s)
    PROVE  IInv'
<1> USE DEF IInv
<1>1. /\ Disturb(s)
      /\ vouched \subseteq vouched'
      /\ live \ {s} \subseteq live'
      /\ \A x \in Sessions \ {s} : email'[x] = email[x]
      /\ UNCHANGED <<clock, keys, pc, cookie, token>>
      BY DEF LogIn, Impersonate, EndSession, requestVars, TypeOK
<1>2. TypeOK'
      BY <1>1 DEF LogIn, Impersonate, EndSession, Disturb, TypeOK, Names
<1>3. RequestInv'
      BY <1>1 DEF TypeOK, RequestInv, Disturb, Active, UserOf, Username
<1>4. Agreement'
      BY <1>1 DEF TypeOK, Agreement, Disturb, Active, UserOf, Username
<1>5. SessionIsVouched'
      BY TrimmedName DEF LogIn, Impersonate, EndSession, TypeOK, SessionIsVouched
<1> QED
    BY <1>2, <1>3, <1>4, <1>5

\* Every step keeps the invariant.
LEMMA StepInv == IInv /\ [Next]_vars => IInv'
<1> SUFFICES ASSUME IInv, [Next]_vars PROVE IInv'
    OBVIOUS
<1>1. ASSUME NEW r \in Requests, Wrap(r) PROVE IInv'
  <2>1. CASE Answer(r)
        BY <1>1, <2>1, AnswerInv DEF Wrap, sessionVars, IInv, TypeOK
  <2>2. CASE pc' = [pc EXCEPT ![r] = "handle"] /\ UNCHANGED <<cookie, token>>
    <3> USE DEF IInv
    <3>1. /\ pc[r] = "wrap"
          /\ UNCHANGED <<clock, keys, live, email, loggedIn, alone, vouched>>
          BY <1>1 DEF Wrap, sessionVars
    <3>2. TypeOK'
          BY <2>2, <3>1 DEF TypeOK
    <3>3. RequestInv'
          BY <2>2, <3>1 DEF TypeOK, RequestInv, UserOf, Username
    <3>4. Agreement'
          BY <2>2, <3>1 DEF TypeOK, Agreement, UserOf, Username
    <3>5. SessionIsVouched'
          BY <3>1 DEF SessionIsVouched
    <3> QED
        BY <3>2, <3>3, <3>4, <3>5
  <2> QED
      BY <1>1, <2>1, <2>2 DEF Wrap
<1>2. ASSUME NEW r \in Requests, Return(r) PROVE IInv'
      BY <1>2, AnswerInv DEF Return, sessionVars, IInv, TypeOK
<1>3. CASE Tick \/ UNCHANGED vars
  <2> USE DEF IInv
  <2>1. /\ clock' \in Nat
        /\ UNCHANGED <<keys, live, email, loggedIn, pc, cookie, token, alone, vouched>>
        BY <1>3 DEF Tick, vars, sessionVars, requestVars, TypeOK
  <2>2. TypeOK'
        BY <2>1 DEF TypeOK
  <2>3. RequestInv' /\ Agreement'
        BY <2>1 DEF RequestInv, Agreement, UserOf, Username
  <2>4. SessionIsVouched'
        BY <2>1 DEF SessionIsVouched
  <2> QED
      BY <2>2, <2>3, <2>4
<1> QED
    BY <1>1, <1>2, <1>3, ArriveInv, VerifyInv, SetUsernameInv, SessionInv
    DEF Next

\* The invariant holds in every reachable state.
LEMMA Invariance == Spec => []IInv
BY InitInv, StepInv, PTL DEF Spec

-----------------------------------------------------------------------------
\* Every variable stays in its range, for any number of requests and sessions.
THEOREM TypeCorrect == Spec => []TypeOK
BY Invariance, PTL DEF IInv

\* No session ever speaks for a user who did not log in, was not impersonated
\* by an administrator and sent no token that was valid at the time: what
\* CheckAuth refuses leaves no trace (auth.go:42-59, jwt.go:75-125).
THEOREM SessionsAreVouched == Spec => []SessionIsVouched
BY Invariance, PTL DEF IInv

\* The handler of a request acts for the user of its token, the name without
\* the blanks around it, unless the session was used for another user meanwhile
\* (auth.go:24-30, 51, 62, rinse.go:263-268).
THEOREM HandlersSeeTokenUser == Spec => []HandlerSeesTokenUser
<1>1. IInv => HandlerSeesTokenUser
  <2> SUFFICES ASSUME IInv, NEW r \in Requests, pc[r] = "handle", alone[r],
                      NEW t \in token[r]
               PROVE  GetEmail(r) = Trim(Username(t))
      BY DEF HandlerSeesTokenUser
  <2>1. cookie[r] \in live /\ UserOf(token[r]) = {Trim(email[cookie[r]])}
        BY DEF IInv, RequestInv
  <2>2. Trim(Username(t)) \in UserOf(token[r])
        BY DEF UserOf
  <2> QED
      BY <2>1, <2>2 DEF GetEmail
<1> QED
    BY Invariance, <1>1, PTL

=============================================================================
