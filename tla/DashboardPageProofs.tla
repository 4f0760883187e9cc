------------------------- MODULE DashboardPageProofs -------------------------
(***************************************************************************)
(* Proofs about AdminAccess and DashboardPage.                             *)
(*                                                                         *)
(* AInv is the Supervisor's half of the invariant and IInv the whole.      *)
(* While the Supervisor runs, no challenge that waits was ever tried and   *)
(* none waits twice (Unspent): complete therefore takes the last copy.  A  *)
(* page is Held when what it holds is tracked, whatever the handlers under *)
(* way bring it, which Sent says; a page that was left is empty and no key *)
(* is on its way to it, unless one was when it left (Emptied).             *)
(*                                                                         *)
(* AdminMove is what any step of the whole does to the Supervisor's state; *)
(* each of its cases is a step of PasswordRecovery, or none.               *)
(***************************************************************************)
EXTENDS DashboardPage, SequenceTheorems, TLAPS

Unspent ==
    /\ IsInjective(challenges)
    /\ Members(challenges) \subseteq issued
    /\ up => tried \cap Members(challenges) = {}

AInv == AdminTypeOK /\ SessionsKnowThePassword /\ Unspent

-----------------------------------------------------------------------------
(* Members of the sequences that the Supervisor's operations build.        *)

LEMMA AppendMembers ==
    ASSUME NEW S, NEW s \in Seq(S), NEW e \in S
    PROVE  /\ Append(s, e) \in Seq(S) /\ Len(Append(s, e)) = Len(s) + 1
           /\ Members(Append(s, e)) = Members(s) \cup {e}
           /\ IsInjective(s) /\ e \notin Members(s) => IsInjective(Append(s, e))
<1> DEFINE t == Append(s, e)
<1>1. /\ t \in Seq(S) /\ Len(t) = Len(s) + 1 /\ Len(s) \in Nat
      /\ DOMAIN t = 1 .. Len(s) + 1 /\ DOMAIN s = 1 .. Len(s)
      /\ t[Len(s) + 1] = e
      /\ \A n \in 1 .. Len(s) : t[n] = s[n]
  BY AppendProperties, LenProperties
<1> HIDE DEF t
<1>2. Members(t) = Members(s) \cup {e}
  BY <1>1 DEF Members
<1>3. IsInjective(s) /\ e \notin Members(s) => IsInjective(t)
  BY <1>1 DEF Members, IsInjective
<1> QED  BY <1>1, <1>2, <1>3 DEF t

LEMMA TailMembers ==
    ASSUME NEW S, NEW s \in Seq(S), s # <<>>
    PROVE  /\ Tail(s) \in Seq(S) /\ Len(Tail(s)) = Len(s) - 1
           /\ Members(Tail(s)) \subseteq Members(s)
           /\ 1 \in DOMAIN s /\ \A m \in DOMAIN s \ {1} : s[m] \in Members(Tail(s))
           /\ IsInjective(s) => IsInjective(Tail(s)) /\ s[1] \notin Members(Tail(s))
<1> DEFINE t == Tail(s)
<1>1. /\ t \in Seq(S) /\ Len(t) = Len(s) - 1 /\ Len(s) \in Nat
      /\ DOMAIN t = 1 .. Len(t) /\ DOMAIN s = 1 .. Len(s)
      /\ \A n \in 1 .. Len(t) : t[n] = s[n + 1]
  BY HeadTailProperties, LenProperties
<1> HIDE DEF t
<1>2. Members(t) \subseteq Members(s)
  BY <1>1 DEF Members
<1>3. IsInjective(s) => IsInjective(t)
  <2> SUFFICES ASSUME IsInjective(s), NEW m \in DOMAIN t, NEW n \in DOMAIN t, t[m] = t[n]
               PROVE  m = n
    BY DEF IsInjective
  <2>1. m \in Nat /\ n \in Nat /\ m + 1 \in DOMAIN s /\ n + 1 \in DOMAIN s
    BY <1>1
  <2>2. s[m + 1] = s[n + 1]  BY <1>1
  <2> QED  BY <2>1, <2>2 DEF IsInjective
<1>4. 1 \in DOMAIN s
  <2>1. Len(s) # 0  BY EmptySeq
  <2> QED  BY <1>1, <2>1
<1>5. ASSUME NEW m \in DOMAIN s \ {1} PROVE s[m] \in Members(t)
  <2>1. m - 1 \in DOMAIN t /\ t[m - 1] = s[m]  BY <1>1
  <2> QED  BY <2>1 DEF Members
<1>6. ASSUME IsInjective(s), s[1] \in Members(t) PROVE FALSE
  <2> PICK n \in DOMAIN t : t[n] = s[1]  BY <1>6 DEF Members
  <2>1. n + 1 \in DOMAIN s /\ n + 1 # 1 /\ s[n + 1] = s[1]  BY <1>1
  <2> QED  BY <1>4, <1>6, <2>1 DEF IsInjective
<1> QED  BY <1>1, <1>2, <1>3, <1>4, <1>5, <1>6 DEF t

LEMMA RemoveAtMembers ==
    ASSUME NEW S, NEW s \in Seq(S), NEW n \in DOMAIN s
    PROVE  /\ RemoveAt(s, n) \in Seq(S) /\ Len(RemoveAt(s, n)) = Len(s) - 1
           /\ Members(RemoveAt(s, n)) \subseteq Members(s)
           /\ \A m \in DOMAIN s \ {n} : s[m] \in Members(RemoveAt(s, n))
           /\ IsInjective(s) => /\ IsInjective(RemoveAt(s, n))
                                /\ s[n] \notin Members(RemoveAt(s, n))
<1> DEFINE a == SubSeq(s, 1, n - 1)
           b == SubSeq(s, n + 1, Len(s))
           t == a \o b
<1>1. Len(s) \in Nat /\ DOMAIN s = 1 .. Len(s) /\ \A m \in 1 .. Len(s) : s[m] \in S
  BY LenProperties
<1>2. n \in 1 .. Len(s)  BY <1>1
<1>3. /\ a \in Seq(S) /\ Len(a) = n - 1
      /\ \A m \in 1 .. n - 1 : a[m] = s[m]
  <2>1. 1 \in Int /\ n - 1 \in Int /\ \A m \in 1 .. n - 1 : s[m] \in S
    BY <1>1, <1>2
  <2>2. /\ a \in Seq(S) /\ Len(a) = IF 1 <= n - 1 THEN (n - 1) - 1 + 1 ELSE 0
        /\ \A m \in 1 .. (n - 1) - 1 + 1 : a[m] = s[1 + m - 1]
    BY <2>1, SubSeqProperties
  <2> HIDE DEF a
  <2>3. ASSUME NEW m \in 1 .. n - 1 PROVE a[m] = s[m]
    <3>1. m \in 1 .. (n - 1) - 1 + 1 /\ 1 + m - 1 = m  BY <1>1, <1>2
    <3> QED  BY <2>2, <3>1
  <2>4. Len(a) = n - 1  BY <1>1, <1>2, <2>2
  <2> QED  BY <2>2, <2>3, <2>4
<1>4. /\ b \in Seq(S) /\ Len(b) = Len(s) - n
      /\ \A m \in 1 .. Len(s) - n : b[m] = s[n + m]
  <2>1. n + 1 \in Int /\ Len(s) \in Int /\ \A m \in n + 1 .. Len(s) : s[m] \in S
    BY <1>1, <1>2
  <2>2. /\ b \in Seq(S) /\ Len(b) = IF n + 1 <= Len(s) THEN Len(s) - (n + 1) + 1 ELSE 0
        /\ \A m \in 1 .. Len(s) - (n + 1) + 1 : b[m] = s[(n + 1) + m - 1]
    BY <2>1, SubSeqProperties
  <2> HIDE DEF b
  <2>3. ASSUME NEW m \in 1 .. Len(s) - n PROVE b[m] = s[n + m]
    <3>1. m \in 1 .. Len(s) - (n + 1) + 1 /\ (n + 1) + m - 1 = n + m  BY <1>1, <1>2
    <3> QED  BY <2>2, <3>1
  <2>4. Len(b) = Len(s) - n  BY <1>1, <1>2, <2>2
  <2> QED  BY <2>2, <2>3, <2>4
<1> HIDE DEF a, b
<1>5. /\ t \in Seq(S) /\ Len(t) = Len(s) - 1 /\ DOMAIN t = 1 .. Len(s) - 1
      /\ \A m \in 1 .. Len(s) - 1 : t[m] = IF m < n THEN s[m] ELSE s[m + 1]
  <2>1. /\ t \in Seq(S) /\ Len(t) = Len(a) + Len(b)
        /\ \A m \in 1 .. Len(a) + Len(b) : t[m] = IF m <= Len(a) THEN a[m] ELSE b[m - Len(a)]
    BY <1>3, <1>4, ConcatProperties
  <2>2. DOMAIN t = 1 .. Len(t)  BY <2>1, LenProperties
  <2> HIDE DEF t
  <2>3. Len(t) = Len(s) - 1  BY <1>1, <1>2, <1>3, <1>4, <2>1
  <2>4. ASSUME NEW m \in 1 .. Len(s) - 1, m < n PROVE t[m] = s[m]
    BY <1>1, <1>2, <1>3, <1>4, <2>1, <2>4
  <2>5. ASSUME NEW m \in 1 .. Len(s) - 1, ~(m < n) PROVE t[m] = s[m + 1]
    <3>1. m \in Nat /\ m - Len(a) \in 1 .. Len(s) - n /\ ~(m <= Len(a))
          /\ n + (m - Len(a)) = m + 1 /\ m \in 1 .. Len(a) + Len(b)
      BY <1>1, <1>2, <1>3, <1>4, <2>5
    <3>2. t[m] = b[m - Len(a)]  BY <2>1, <3>1
    <3>3. b[m - Len(a)] = s[n + (m - Len(a))]  BY <1>4, <3>1
    <3> QED  BY <3>1, <3>2, <3>3
  <2> QED  BY <2>1, <2>2, <2>3, <2>4, <2>5
<1>6. t = RemoveAt(s, n)  BY DEF t, a, b, RemoveAt
<1> HIDE DEF t
<1>7. ASSUME NEW m \in DOMAIN t
      PROVE  \E k \in DOMAIN s : /\ k = IF m < n THEN m ELSE m + 1
                                /\ k # n /\ t[m] = s[k]
  <2>1. CASE m < n
    BY <1>1, <1>2, <1>5, <2>1
  <2>2. CASE ~(m < n)
    <3>1. m \in 1 .. Len(s) - 1 /\ m + 1 \in DOMAIN s /\ m + 1 # n
      BY <1>1, <1>2, <1>5, <2>2
    <3> QED  BY <1>5, <2>2, <3>1
  <2> QED  BY <2>1, <2>2
<1>8. Members(t) \subseteq Members(s)
  BY <1>7 DEF Members
<1>9. ASSUME IsInjective(s)
      PROVE  s[n] \notin Members(t)
  <2> SUFFICES ASSUME NEW m \in DOMAIN t, t[m] = s[n] PROVE FALSE
    BY DEF Members
  <2> PICK k \in DOMAIN s : k # n /\ t[m] = s[k]  BY <1>7
  <2> QED  BY <1>9 DEF IsInjective
<1>10. ASSUME IsInjective(s)
       PROVE  IsInjective(t)
  <2> SUFFICES ASSUME NEW m \in DOMAIN t, NEW l \in DOMAIN t, t[m] = t[l]
               PROVE  m = l
    BY DEF IsInjective
  <2> PICK k \in DOMAIN s : k = (IF m < n THEN m ELSE m + 1) /\ t[m] = s[k]  BY <1>7
  <2> PICK j \in DOMAIN s : j = (IF l < n THEN l ELSE l + 1) /\ t[l] = s[j]  BY <1>7
  <2>1. k = j  BY <1>10 DEF IsInjective
  <2>2. m \in Nat /\ l \in Nat /\ n \in Nat  BY <1>1, <1>2, <1>5
  <2> QED  BY <2>1, <2>2
<1>11. ASSUME NEW m \in DOMAIN s \ {n}
       PROVE  s[m] \in Members(t)
  <2>1. CASE m < n
    <3>1. m \in DOMAIN t /\ t[m] = s[m]  BY <1>1, <1>2, <1>5, <2>1
    <3> QED  BY <3>1 DEF Members
  <2>2. CASE ~(m < n)
    <3>1. m - 1 \in 1 .. Len(s) - 1 /\ ~(m - 1 < n) /\ (m - 1) + 1 = m
      BY <1>1, <1>2, <2>2
    <3>2. m - 1 \in DOMAIN t /\ t[m - 1] = s[m]  BY <1>5, <3>1
    <3> QED  BY <3>2 DEF Members
  <2> QED  BY <2>1, <2>2
<1> QED  BY <1>5, <1>6, <1>8, <1>9, <1>10, <1>11
-----------------------------------------------------------------------------
(* The Supervisor's half.                                                  *)

LEMMA KeptMembers ==
    ASSUME AdminTypeOK
    PROVE  /\ Kept \in Seq([token : Session, by : Verifier]) /\ Len(Kept) < MaxSessions
           /\ Members(Kept) \subseteq Members(sessions)
<1> DEFINE S == [token : Session, by : Verifier]
<1>1. /\ sessions \in Seq(S) /\ Len(sessions) \in Nat /\ Len(sessions) <= MaxSessions
      /\ MaxSessions \in Nat \ {0}
  BY LenProperties, LimitAssumption DEF AdminTypeOK
<1> HIDE DEF S
<1>2. CASE Len(sessions) < MaxSessions
  BY <1>1, <1>2 DEF Kept, S
<1>3. CASE ~(Len(sessions) < MaxSessions)
  <2>1. Len(sessions) = MaxSessions /\ sessions # <<>>
    BY <1>1, <1>3, EmptySeq
  <2>2. /\ Tail(sessions) \in Seq(S) /\ Len(Tail(sessions)) = Len(sessions) - 1
        /\ Members(Tail(sessions)) \subseteq Members(sessions)
    BY <1>1, <2>1, TailMembers
  <2>3. Kept = Tail(sessions)  BY <1>3 DEF Kept
  <2> QED  BY <1>1, <2>1, <2>2, <2>3 DEF S
<1> QED  BY <1>2, <1>3

(* A step that leaves the password and the challenges alone, and keeps     *)
(* only sessions that are open or opens one with the password asked for.   *)
LEMMA SessionStep ==
    ASSUME AInv, UNCHANGED <<stored, memory, challenges, dialog, up, issued, tried>>,
           sessions' \in Seq([token : Session, by : Verifier]), Len(sessions') <= MaxSessions,
           \A s \in Members(sessions') : s \in Members(sessions) \/ s.by = memory
    PROVE  AInv'
<1>1. AdminTypeOK'  BY DEF AInv, AdminTypeOK
<1>2. SessionsKnowThePassword'  BY DEF AInv, SessionsKnowThePassword
<1>3. Unspent'  BY DEF AInv, Unspent, Members, IsInjective
<1> QED  BY <1>1, <1>2, <1>3 DEF AInv

LEMMA LoginStep ==
    ASSUME AInv, NEW password, NEW s, Login(password, s)
    PROVE  AInv'
<1> DEFINE S == [token : Session, by : Verifier]
           e == [token |-> s, by |-> memory]
<1>1. /\ Kept \in Seq(S) /\ Len(Kept) < MaxSessions
      /\ Members(Kept) \subseteq Members(sessions)
  BY KeptMembers DEF AInv
<1>2. e \in S  BY DEF AInv, AdminTypeOK, Login
<1>3. sessions' = Append(Kept, e)  BY DEF Login
<1>4. Len(Kept) \in Nat /\ MaxSessions \in Nat  BY <1>1, LenProperties, LimitAssumption
<1>5. e.by = memory  OBVIOUS
<1> HIDE DEF S, e
<1>6. /\ sessions' \in Seq(S) /\ Len(sessions') = Len(Kept) + 1
      /\ Members(sessions') = Members(Kept) \cup {e}
  BY <1>1, <1>2, <1>3, AppendMembers
<1>7. Len(sessions') <= MaxSessions  BY <1>1, <1>4, <1>6
<1>8. \A x \in Members(sessions') : x \in Members(sessions) \/ x.by = memory
  BY <1>1, <1>5, <1>6
<1> QED  BY <1>6, <1>7, <1>8, SessionStep DEF Login, S

LEMMA ShorterStep ==
    ASSUME AInv, UNCHANGED <<stored, memory, challenges, dialog, up, issued, tried>>,
           \/ sessions # <<>> /\ sessions' = Tail(sessions)
           \/ \E n \in DOMAIN sessions : sessions' = RemoveAt(sessions, n)
           \/ sessions' = sessions
    PROVE  AInv'
<1> DEFINE S == [token : Session, by : Verifier]
<1>1. /\ sessions \in Seq(S) /\ Len(sessions) \in Nat /\ Len(sessions) <= MaxSessions
      /\ MaxSessions \in Nat
  BY LenProperties, LimitAssumption DEF AInv, AdminTypeOK
<1> HIDE DEF S
<1>2. /\ sessions' \in Seq(S) /\ Len(sessions') <= Len(sessions)
      /\ Members(sessions') \subseteq Members(sessions)
  <2>1. CASE sessions # <<>> /\ sessions' = Tail(sessions)
    BY <1>1, <2>1, TailMembers
  <2>2. CASE \E n \in DOMAIN sessions : sessions' = RemoveAt(sessions, n)
    BY <1>1, <2>2, RemoveAtMembers
  <2>3. CASE sessions' = sessions
    BY <1>1, <2>3
  <2> QED  BY <2>1, <2>2, <2>3
<1>3. Len(sessions') \in Nat  BY <1>2, LenProperties
<1>4. Len(sessions') <= MaxSessions  BY <1>1, <1>2, <1>3
<1> QED  BY <1>2, <1>4, SessionStep DEF S

(* A step that leaves the password and the sessions alone, and keeps only  *)
(* challenges that wait or adds one that was never issued.                 *)
LEMMA ChallengeStep ==
    ASSUME AInv, UNCHANGED <<stored, memory, sessions, up>>, dialog' \in BOOLEAN,
           challenges' \in Seq(Challenge), Len(challenges') <= MaxChallenges,
           IsInjective(challenges)',
           Members(challenges)' \subseteq issued', issued' \subseteq Challenge,
           tried' \subseteq issued',
           up => tried' \cap Members(challenges)' = {}
    PROVE  AInv'
<1>1. AdminTypeOK'  BY DEF AInv, AdminTypeOK
<1>2. SessionsKnowThePassword'  BY DEF AInv, SessionsKnowThePassword, Members
<1>3. Unspent'  BY DEF AInv, Unspent
<1> QED  BY <1>1, <1>2, <1>3 DEF AInv

LEMMA ConfirmStep ==
    ASSUME AInv, NEW c, Confirm(c)
    PROVE  AInv'
<1>1. /\ challenges \in Seq(Challenge) /\ Len(challenges) \in Nat
      /\ MaxChallenges \in Nat /\ Len(challenges) < MaxChallenges
      /\ c \in Challenge \ issued /\ tried \subseteq issued /\ issued \subseteq Challenge
  BY LenProperties, LimitAssumption DEF AInv, AdminTypeOK, Confirm
<1>2. c \notin Members(challenges) /\ Members(challenges) \subseteq issued
  BY <1>1 DEF AInv, Unspent
<1>3. challenges' = Append(challenges, c) /\ issued' = issued \cup {c} /\ dialog' = FALSE
      /\ UNCHANGED <<stored, memory, sessions, up, tried>>
  BY DEF Confirm
<1>4. /\ challenges' \in Seq(Challenge) /\ Len(challenges') = Len(challenges) + 1
      /\ Members(challenges') = Members(challenges) \cup {c}
      /\ IsInjective(challenges')
  BY <1>1, <1>2, <1>3, AppendMembers DEF AInv, Unspent
<1>5. Len(challenges') <= MaxChallenges  BY <1>1, <1>4
<1>6. up => tried' \cap Members(challenges') = {}
  BY <1>1, <1>3, <1>4 DEF AInv, Unspent
<1>7. /\ Members(challenges') \subseteq issued' /\ issued' \subseteq Challenge
      /\ tried' \subseteq issued'
  BY <1>1, <1>2, <1>3, <1>4
<1> QED  BY <1>3, <1>4, <1>5, <1>6, <1>7, ChallengeStep

LEMMA NoChallengeStep ==
    ASSUME AInv, UNCHANGED <<stored, memory, sessions, challenges, up, issued, tried>>,
           dialog' \in BOOLEAN
    PROVE  AInv'
  BY DEF AInv, AdminTypeOK, SessionsKnowThePassword, Unspent, Members, IsInjective

LEMMA ExpireChallengeStep ==
    ASSUME AInv, ExpireChallenge
    PROVE  AInv'
<1>1. /\ challenges \in Seq(Challenge) /\ Len(challenges) \in Nat
      /\ MaxChallenges \in Nat /\ Len(challenges) <= MaxChallenges
      /\ tried \subseteq issued /\ issued \subseteq Challenge /\ dialog \in BOOLEAN
  BY LenProperties, LimitAssumption DEF AInv, AdminTypeOK
<1>2. challenges # <<>> /\ challenges' = Tail(challenges)
      /\ UNCHANGED <<stored, memory, sessions, dialog, up, issued, tried>>
  BY DEF ExpireChallenge
<1>3. /\ challenges' \in Seq(Challenge) /\ Len(challenges') = Len(challenges) - 1
      /\ Members(challenges') \subseteq Members(challenges)
      /\ IsInjective(challenges')
  BY <1>1, <1>2, TailMembers DEF AInv, Unspent
<1>4. Len(challenges') <= MaxChallenges  BY <1>1, <1>3
<1>5. /\ Members(challenges') \subseteq issued'
      /\ up => tried' \cap Members(challenges') = {}
  BY <1>2, <1>3 DEF AInv, Unspent
<1> QED  BY <1>1, <1>2, <1>3, <1>4, <1>5, ChallengeStep

(* Consuming a challenge takes its only copy.                              *)
LEMMA ConsumedMembers ==
    ASSUME AInv, NEW c \in Members(challenges), NEW done
    PROVE  /\ Consumed(c, done) \in Seq(Challenge) /\ Len(Consumed(c, done)) <= MaxChallenges
           /\ IsInjective(Consumed(c, done))
           /\ Members(Consumed(c, done)) = Members(challenges) \ {c}
<1> DEFINE n == CHOOSE m \in DOMAIN challenges : challenges[m] = c
<1>1. /\ challenges \in Seq(Challenge) /\ Len(challenges) \in Nat
      /\ MaxChallenges \in Nat /\ Len(challenges) <= MaxChallenges
      /\ IsInjective(challenges)
  BY LenProperties, LimitAssumption DEF AInv, AdminTypeOK, Unspent
<1>2. n \in DOMAIN challenges /\ challenges[n] = c
  BY DEF Members
<1>3. Consumed(c, done) = RemoveAt(challenges, n)
  BY DEF Consumed, Without
<1> HIDE DEF n
<1>4. /\ RemoveAt(challenges, n) \in Seq(Challenge)
      /\ Len(RemoveAt(challenges, n)) = Len(challenges) - 1
      /\ Members(RemoveAt(challenges, n)) \subseteq Members(challenges)
      /\ IsInjective(RemoveAt(challenges, n))
      /\ c \notin Members(RemoveAt(challenges, n))
      /\ \A m \in DOMAIN challenges \ {n} : challenges[m] \in Members(RemoveAt(challenges, n))
  BY <1>1, <1>2, RemoveAtMembers
<1>5. Members(RemoveAt(challenges, n)) = Members(challenges) \ {c}
  BY <1>2, <1>4 DEF Members
<1>6. Len(RemoveAt(challenges, n)) <= MaxChallenges  BY <1>1, <1>4
<1> QED  BY <1>3, <1>4, <1>5, <1>6

LEMMA CompleteRaisesStep ==
    ASSUME AInv, NEW c, CompleteRaises(c)
    PROVE  AInv'
<1>1. /\ c \in Members(challenges) /\ challenges' = Consumed(c, FALSE)
      /\ tried' = tried \cup {c}
      /\ UNCHANGED <<stored, memory, sessions, dialog, up, issued>>
  BY DEF CompleteRaises
<1>2. /\ challenges' \in Seq(Challenge) /\ Len(challenges') <= MaxChallenges
      /\ IsInjective(challenges')
      /\ Members(challenges') \subseteq Members(challenges) \ {c}
  BY <1>1, ConsumedMembers
<1>3. /\ Members(challenges) \subseteq issued /\ (up => tried \cap Members(challenges) = {})
      /\ tried \subseteq issued /\ issued \subseteq Challenge /\ dialog \in BOOLEAN
  BY DEF AInv, Unspent, AdminTypeOK
<1>4. /\ Members(challenges') \subseteq issued' /\ tried' \subseteq issued'
      /\ issued' \subseteq Challenge /\ dialog' \in BOOLEAN
      /\ UNCHANGED <<stored, memory, sessions, up>>
  BY <1>1, <1>2, <1>3
<1>5. up => tried' \cap Members(challenges') = {}
  BY <1>1, <1>2, <1>3
<1> QED  BY <1>2, <1>4, <1>5, ChallengeStep

LEMMA CompleteStep ==
    ASSUME AInv, NEW c, NEW password \in Password, Complete(c, password)
    PROVE  AInv'
<1>1. /\ c \in Members(challenges) /\ challenges' = Consumed(c, TRUE)
      /\ tried' = tried \cup {c} /\ sessions' = <<>>
      /\ stored' = [password |-> password, by |-> c] /\ memory' = stored'
      /\ UNCHANGED <<dialog, up, issued>>
  BY DEF Complete, Replaced
<1>2. /\ challenges' \in Seq(Challenge) /\ Len(challenges') <= MaxChallenges
      /\ IsInjective(challenges')
      /\ Members(challenges') \subseteq Members(challenges) \ {c}
  BY <1>1, ConsumedMembers
<1>3. /\ Members(challenges) \subseteq issued /\ (up => tried \cap Members(challenges) = {})
      /\ tried \subseteq issued /\ issued \subseteq Challenge
      /\ dialog \in BOOLEAN /\ up \in BOOLEAN
  BY DEF AInv, Unspent, AdminTypeOK
<1>4. stored' \in Verifier /\ memory' \in Verifier
  <2>1. c \in Challenge  BY <1>1, <1>3
  <2> QED  BY <1>1, <2>1 DEF Verifier
<1>5. /\ sessions' \in Seq([token : Session, by : Verifier]) /\ Len(sessions') <= MaxSessions
      /\ Members(sessions') = {}
  BY <1>1, EmptySeq, LimitAssumption DEF Members
<1>6. AdminTypeOK'
  <2>1. tried' \subseteq issued' /\ issued' \subseteq Challenge
        /\ dialog' \in BOOLEAN /\ up' \in BOOLEAN
    BY <1>1, <1>3
  <2> QED  BY <1>2, <1>4, <1>5, <2>1 DEF AdminTypeOK
<1>7. SessionsKnowThePassword'
  BY <1>1, <1>5 DEF SessionsKnowThePassword
<1>8. Unspent'
  <2>1. Members(challenges') \subseteq issued'  BY <1>1, <1>2, <1>3
  <2>2. up' => tried' \cap Members(challenges') = {}  BY <1>1, <1>2, <1>3
  <2> QED  BY <1>2, <2>1, <2>2 DEF Unspent
<1> QED  BY <1>6, <1>7, <1>8 DEF AInv

LEMMA DownStep ==
    ASSUME AInv, up' = FALSE, stored' \in Verifier, tried' \subseteq issued,
           UNCHANGED <<memory, sessions, challenges, dialog, issued>>
    PROVE  AInv'
<1>1. AdminTypeOK'  BY DEF AInv, AdminTypeOK
<1>2. SessionsKnowThePassword'  BY DEF AInv, SessionsKnowThePassword
<1>3. Unspent'  BY DEF AInv, Unspent, Members, IsInjective
<1> QED  BY <1>1, <1>2, <1>3 DEF AInv

LEMMA CompleteDiesStep ==
    ASSUME AInv, NEW c, NEW password \in Password, CompleteDies(c, password)
    PROVE  AInv'
<1>1. c \in issued /\ issued \subseteq Challenge /\ tried \subseteq issued
  BY DEF AInv, Unspent, AdminTypeOK, CompleteDies
<1>2. stored' \in Verifier
  BY <1>1 DEF CompleteDies, Replaced, Verifier
<1> QED  BY <1>1, <1>2, DownStep DEF CompleteDies

LEMMA RestartStep ==
    ASSUME AInv, Restart
    PROVE  AInv'
<1>1. /\ up' = TRUE /\ memory' = stored /\ sessions' = <<>> /\ challenges' = <<>>
      /\ dialog' = FALSE /\ UNCHANGED <<stored, issued, tried>>
  BY DEF Restart
<1>2. /\ sessions' \in Seq([token : Session, by : Verifier]) /\ Len(sessions') <= MaxSessions
      /\ Members(sessions') = {}
  BY <1>1, EmptySeq, LimitAssumption DEF Members
<1>3. /\ challenges' \in Seq(Challenge) /\ Len(challenges') <= MaxChallenges
      /\ Members(challenges') = {} /\ IsInjective(challenges')
  BY <1>1, EmptySeq, LimitAssumption DEF Members, IsInjective
<1>4. AdminTypeOK'
  BY <1>1, <1>2, <1>3 DEF AInv, AdminTypeOK
<1>5. SessionsKnowThePassword'
  BY <1>1, <1>2 DEF SessionsKnowThePassword
<1>6. Unspent'
  BY <1>1, <1>3 DEF Unspent
<1> QED  BY <1>4, <1>5, <1>6 DEF AInv

-----------------------------------------------------------------------------
(* The page's half.                                                        *)

Sent(r) ==
    /\ DOMAIN r = DOMAIN Free
    /\ r.page \in Page \cup {None}
    /\ r.at = "asking" => r.kind = "challenge"
    /\ r.kind = "login" /\ r.ok = "yes" => r.answer \in Session
    /\ r.kind = "challenge" /\ r.ok = "yes" => r.answer \in Challenge
    /\ r.kind = "create" /\ r.ok = "yes" => r.answer \in Key
    /\ r.kind = "opencode" /\ (r.at = "sent" \/ r.ok = "yes") => r.arg \in Key
    /\ r.kind = "login" /\ r.at = "sent" => r.password \in Password
    /\ r.kind = "complete" /\ r.at = "sent" => r.password \in Password \cup {"short"}
    /\ r.at = "sent" => r.ok = "none"

PageTyped(r) ==
    /\ r.signedIn \in BOOLEAN /\ r.enabled \in BOOLEAN /\ r.marked \in BOOLEAN
    /\ r.shown \subseteq {"login", "recovery"}
    /\ r.token \in Challenge \cup {None}
    /\ r.key \in Key \cup {None} /\ r.keyId \in Key \cup {None}
    /\ r.typed \in Key \cup {None} /\ r.configKey \in Key \cup {None}
    /\ r.prefix \in Key \cup {None}
    /\ r.result \subseteq Key

Tracked(r) ==
    /\ r.keyId = r.key
    /\ r.configKey # None => r.marked /\ r.prefix = r.configKey

Held(r) == DOMAIN r = DOMAIN Blank /\ PageTyped(r) /\ Tracked(r)

Empty(r) ==
    r.key = None /\ r.typed = None /\ r.configKey = None /\ r.result = {}

Emptied ==
    \A p \in Page \ late : ~page[p].enabled => Empty(page[p]) /\ ~OnItsWay(p)

Typed ==
    /\ direct \in BOOLEAN
    /\ cookie \in Session \cup {None}
    /\ active \subseteq created /\ created \subseteq Key
    /\ late \subseteq Page

PInv ==
    /\ Typed
    /\ DOMAIN slot = Slot /\ \A i \in Slot : Sent(slot[i])
    /\ DOMAIN page = Page /\ \A p \in Page : Held(page[p])
    /\ Emptied

IInv == AInv /\ PInv

-----------------------------------------------------------------------------
(* What the page's helpers make of a page.                                 *)

LEMMA OpenedHeld == direct \in BOOLEAN => Held(Opened) /\ Empty(Opened) /\ Held(Blank)
  BY DEF Held, Opened, Blank, PageTyped, Tracked, Empty

LEMMA ClearedKeyHeld ==
    ASSUME NEW r, Held(r)
    PROVE  /\ Held(ClearGatewayKey(r)) /\ ClearGatewayKey(r).enabled = r.enabled
           /\ ClearGatewayKey(r).key = None /\ ClearGatewayKey(r).typed = None
           /\ ClearGatewayKey(r).result = {} /\ ClearGatewayKey(r).configKey = r.configKey
           /\ Empty(r) => Empty(ClearGatewayKey(r))
  BY DEF Held, Blank, PageTyped, Tracked, Empty, ClearGatewayKey

LEMMA ClearedConfigHeld ==
    ASSUME NEW r, Held(r)
    PROVE  /\ Held(ClearConfig(r)) /\ ClearConfig(r).enabled = r.enabled
           /\ ClearConfig(r).key = r.key /\ ClearConfig(r).typed = r.typed
           /\ ClearConfig(r).result = r.result /\ ClearConfig(r).configKey = None
           /\ Empty(r) => Empty(ClearConfig(r))
  BY DEF Held, Blank, PageTyped, Tracked, Empty, ClearConfig

LEMMA LeftHeld ==
    ASSUME NEW r, Held(r)
    PROVE  Held(LeaveSignedIn(r)) /\ Empty(LeaveSignedIn(r))
  BY DEF Held, Blank, PageTyped, Tracked, Empty, ClearConfig, ClearGatewayKey, LeaveSignedIn

LEMMA LoginShownHeld ==
    ASSUME NEW r, Held(r)
    PROVE  /\ Held(ShowLogin(r)) /\ ShowLogin(r).enabled = r.enabled
           /\ Empty(r) => Empty(ShowLogin(r))
  BY DEF Held, Blank, PageTyped, Tracked, Empty, ShowLogin

LEMMA GeneratedHeld ==
    ASSUME NEW r, Held(r), NEW kind \in {"opencode", "cline"}, NEW secret,
           kind = "opencode" => secret \in Key
    PROVE  /\ Held(Generated(r, kind, secret)) /\ Generated(r, kind, secret).enabled = r.enabled
           /\ kind = "cline" /\ Empty(r) => Empty(Generated(r, kind, secret))
  BY DEF Held, Blank, PageTyped, Tracked, Empty, Generated

-----------------------------------------------------------------------------
(* Steps of the page.                                                      *)

(* The page handles something on its own, or sends a request: a page that  *)
(* is not enabled sends none that brings a key.                            *)
LEMMA SendStep ==
    ASSUME PInv, NEW i \in Slot, NEW p \in Page, NEW kind, NEW password, NEW arg,
           NEW now, Held(now), Send(i, p, kind, password, arg, now),
           kind = "opencode" => arg \in Key,
           kind = "login" => password \in Password,
           kind = "complete" => password \in Password \cup {"short"},
           late' \subseteq Page, late \subseteq late',
           now.enabled \/ kind \notin {"create", "opencode"},
           now.enabled \/ p \in late' \/ (Empty(now) /\ ~OnItsWay(p))
    PROVE  PInv'
<1> DEFINE r == [Free EXCEPT !.kind = kind, !.page = p, !.at = "sent",
                             !.cookie = IF kind \in Controlled THEN cookie ELSE None,
                             !.password = password, !.arg = arg]
<1>1. /\ slot' = [slot EXCEPT ![i] = r] /\ page' = [page EXCEPT ![p] = now]
      /\ UNCHANGED <<direct, cookie, active, created>>
      /\ slot[i].kind = "none"
  BY DEF Send
<1>2. Sent(r) /\ r.page = p /\ r.kind = kind
  BY DEF Sent, Free
<1> HIDE DEF r
<1>3. DOMAIN slot' = Slot /\ \A j \in Slot : Sent(slot'[j])
  BY <1>1, <1>2 DEF PInv
<1>4. DOMAIN page' = Page /\ \A q \in Page : Held(page'[q])
  BY <1>1 DEF PInv
<1>5. Typed'
  BY <1>1 DEF PInv, Typed
<1>6. Emptied'
  <2> SUFFICES ASSUME NEW q \in Page \ late', ~page'[q].enabled
               PROVE  Empty(page'[q]) /\ ~OnItsWay(q)'
    BY DEF Emptied
  <2>1. CASE q = p
    <3>1. page'[q] = now  BY <1>1, <2>1 DEF PInv
    <3>2. kind \notin {"create", "opencode"} /\ Empty(now) /\ ~OnItsWay(p)
      BY <2>1, <3>1
    <3>3. ~OnItsWay(q)'
      BY <1>1, <1>2, <2>1, <3>2 DEF OnItsWay, PInv
    <3> QED  BY <3>1, <3>2, <3>3
  <2>2. CASE q # p
    <3>1. page'[q] = page[q] /\ q \in Page \ late  BY <1>1, <2>2 DEF PInv
    <3>2. Empty(page[q]) /\ ~OnItsWay(q)  BY <3>1 DEF PInv, Emptied
    <3>3. ~OnItsWay(q)'
      BY <1>1, <1>2, <2>2, <3>2 DEF OnItsWay, PInv
    <3> QED  BY <3>1, <3>2, <3>3
  <2> QED  BY <2>1, <2>2
<1> QED  BY <1>3, <1>4, <1>5, <1>6 DEF PInv

(* The Supervisor answers: only the slot changes, and not whose it is.     *)
LEMMA SlotStep ==
    ASSUME PInv, UNCHANGED <<direct, page, cookie, late>>,
           active' \subseteq created', created' \subseteq Key,
           DOMAIN slot' = Slot, \A j \in Slot : Sent(slot'[j]),
           \A j \in Slot : \/ slot'[j].kind = slot[j].kind /\ slot'[j].page = slot[j].page
                           \/ slot'[j].kind \notin {"create", "opencode"}
    PROVE  PInv'
<1>1. Typed'  BY DEF PInv, Typed
<1>2. Emptied'
  BY DEF PInv, Emptied, OnItsWay
<1> QED  BY <1>1, <1>2 DEF PInv

LEMMA AnswerStep ==
    ASSUME PInv, NEW i \in Slot, NEW ok \in {"yes", "no", "forbidden"}, NEW answer,
           Answer(i, ok, answer),
           UNCHANGED <<direct, page, cookie, late>>,
           active' \subseteq created', created' \subseteq Key,
           ok = "yes" => /\ slot[i].kind = "login" => answer \in Session
                         /\ slot[i].kind = "challenge" => answer \in Challenge
                         /\ slot[i].kind = "create" => answer \in Key
                         /\ slot[i].kind = "opencode" => slot[i].at = "sent"
    PROVE  PInv'
<1>1. DOMAIN slot' = Slot /\ \A j \in Slot : j # i => slot'[j] = slot[j]
  BY DEF PInv, Answer
<1>2. /\ DOMAIN slot'[i] = DOMAIN Free
      /\ slot'[i].kind = slot[i].kind /\ slot'[i].page = slot[i].page
      /\ slot'[i].at = "answered" /\ slot'[i].ok = ok /\ slot'[i].answer = answer
      /\ slot'[i].arg = IF ok = "yes" THEN slot[i].arg ELSE None
  BY DEF PInv, Answer, Sent, Free
<1>3. Sent(slot'[i])
  BY <1>2 DEF PInv, Sent
<1>4. \A j \in Slot : Sent(slot'[j])
  BY <1>1, <1>3 DEF PInv
<1>5. \A j \in Slot : slot'[j].kind = slot[j].kind /\ slot'[j].page = slot[j].page
  BY <1>1, <1>2
<1> QED  BY <1>1, <1>4, <1>5, SlotStep

LEMMA FreeSent == Sent(Free) /\ Free.kind = "none" /\ Free.page = None
  BY DEF Sent, Free

(* A request is over for the Supervisor and for the page.                  *)
LEMMA FreeStep ==
    ASSUME PInv, NEW i \in Slot, slot' = [slot EXCEPT ![i] = Free], UNCHANGED pageVars
    PROVE  PInv'
<1>1. DOMAIN slot' = Slot /\ \A j \in Slot : Sent(slot'[j])
  BY FreeSent DEF PInv
<1>2. \A j \in Slot : slot'[j] = slot[j] \/ slot'[j].kind \notin {"create", "opencode"}
  BY FreeSent DEF PInv
<1>3. active' \subseteq created' /\ created' \subseteq Key
      /\ UNCHANGED <<direct, page, cookie, late>>
  BY DEF PInv, Typed, pageVars
<1> QED  BY <1>1, <1>2, <1>3, SlotStep

(* A handler goes on: its slot is free, and a page that is not enabled     *)
(* gets a key only if it left while the key was on its way.                *)
LEMMA ContinueStep ==
    ASSUME PInv, NEW i \in Slot, NEW kind, NEW now, Continue(i, kind, now),
           slot[i].page \in Page => Held(now),
           late' \subseteq Page, late \subseteq late',
           cookie' \in Session \cup {None},
           \/ kind \in {"create", "opencode"}
           \/ now.enabled \/ Empty(now) \/ slot[i].page \in late',
           \/ now.enabled \/ ~page[slot[i].page].enabled
           \/ slot[i].page \in late' \/ ~OnItsWay(slot[i].page)
    PROVE  PInv'
<1> DEFINE p == slot[i].page
<1>1. /\ p \in Page /\ Held(now) /\ slot[i].kind = kind
      /\ slot' = [slot EXCEPT ![i] = Free] /\ page' = [page EXCEPT ![p] = now]
      /\ UNCHANGED <<direct, active, created>>
  BY DEF PInv, Continue, Sent
<1>2. DOMAIN slot' = Slot /\ \A j \in Slot : Sent(slot'[j])
  BY <1>1, FreeSent DEF PInv
<1>3. DOMAIN page' = Page /\ \A q \in Page : Held(page'[q])
  BY <1>1 DEF PInv
<1>4. Typed'
  BY <1>1 DEF PInv, Typed
<1>5. \A q \in Page : OnItsWay(q)' => OnItsWay(q)
  BY <1>1, FreeSent DEF OnItsWay, PInv
<1>6. Emptied'
  <2> SUFFICES ASSUME NEW q \in Page \ late', ~page'[q].enabled
               PROVE  Empty(page'[q]) /\ ~OnItsWay(q)'
    BY DEF Emptied
  <2>1. CASE q # p
    BY <1>1, <1>5, <2>1 DEF PInv, Emptied
  <2>2. CASE q = p
    <3>1. page'[p] = now  BY <1>1 DEF PInv
    <3>2. ~OnItsWay(p)
      BY <1>1, <2>2, <3>1 DEF PInv, Emptied
    <3>3. kind \notin {"create", "opencode"}
      BY <1>1, <3>2 DEF OnItsWay
    <3> QED  BY <1>1, <1>5, <2>2, <3>1, <3>2, <3>3
  <2> QED  BY <2>1, <2>2
<1> QED  BY <1>2, <1>3, <1>4, <1>6 DEF PInv

LEMMA AdminSame == AInv /\ UNCHANGED adminVars => AInv'
  BY DEF AInv, AdminTypeOK, SessionsKnowThePassword, Unspent, Members, IsInjective, adminVars

-----------------------------------------------------------------------------
(* The handlers, up to their await.                                        *)

LEMMA HandleStep ==
    ASSUME PInv, NEW i \in Slot, NEW p \in Page, Handle(i, p)
    PROVE  PInv' /\ UNCHANGED adminVars
<1> DEFINE r == page[p]
<1>1. Held(r) /\ (r.enabled \/ p \in late \/ (Empty(r) /\ ~OnItsWay(p))) /\ late \subseteq Page
  BY DEF PInv, Emptied, Typed
<1>2. Usable(p) => r.enabled
  BY DEF Usable
<1>3. CASE SubmitLogin(i, p)
  <2>1. PICK password \in Password : Send(i, p, "login", password, None, r)
    BY <1>3 DEF SubmitLogin
  <2>2. late' = late  BY <1>3 DEF SubmitLogin
  <2>3. PInv'  BY <1>1, <2>1, <2>2, SendStep
  <2> QED  BY <2>1, <2>3 DEF Send
<1>4. CASE StartRecovery(i, p)
  <2>1. Send(i, p, "challenge", None, None, r) /\ late' = late
    BY <1>4 DEF StartRecovery
  <2>2. PInv'  BY <1>1, <2>1, SendStep
  <2> QED  BY <2>1, <2>2 DEF Send
<1>5. CASE SubmitRecovery(i, p)
  <2>1. PICK password \in Password \cup {"short"} : Send(i, p, "complete", password, r.token, r)
    BY <1>5 DEF SubmitRecovery
  <2>2. late' = late  BY <1>5 DEF SubmitRecovery
  <2>3. PInv'  BY <1>1, <2>1, <2>2, SendStep
  <2> QED  BY <2>1, <2>3 DEF Send
<1>6. CASE LoadDashboard(i, p)
  <2>1. Send(i, p, "load", None, None, r) /\ late' = late
    BY <1>6 DEF LoadDashboard
  <2>2. PInv'  BY <1>1, <2>1, SendStep
  <2> QED  BY <2>1, <2>2 DEF Send
<1>7. CASE SubmitKey(i, p)
  <2>1. Send(i, p, "create", None, None, ClearGatewayKey(r)) /\ late' = late /\ r.enabled
    BY <1>2, <1>7 DEF SubmitKey
  <2>2. Held(ClearGatewayKey(r)) /\ ClearGatewayKey(r).enabled
    BY <1>1, <2>1, ClearedKeyHeld
  <2>3. PInv'  BY <1>1, <2>1, <2>2, SendStep
  <2> QED  BY <2>1, <2>3 DEF Send
<1>8. CASE ShowOpenCode(i, p)
  <2> DEFINE secret == IF r.typed # None THEN r.typed ELSE r.key
             now == ClearConfig(ClearGatewayKey(r))
  <2>1. Send(i, p, "opencode", None, secret, now) /\ late' = late /\ r.enabled /\ secret # None
    BY <1>2, <1>8 DEF ShowOpenCode
  <2>2. secret \in Key
    BY <1>1, <2>1 DEF Held, PageTyped
  <2>3. Held(now) /\ now.enabled
    BY <1>1, <2>1, ClearedKeyHeld, ClearedConfigHeld
  <2> HIDE DEF secret, now
  <2>4. PInv'  BY <1>1, <2>1, <2>2, <2>3, SendStep
  <2> QED  BY <2>1, <2>4 DEF Send
<1>9. CASE ShowCline(i, p)
  <2> DEFINE now == ClearConfig([r EXCEPT !.typed = None])
  <2>1. Send(i, p, "cline", None, None, now) /\ late' = late /\ r.enabled
    BY <1>2, <1>9 DEF ShowCline
  <2>2. Held([r EXCEPT !.typed = None]) /\ [r EXCEPT !.typed = None].enabled = r.enabled
    BY <1>1 DEF Held, PageTyped, Tracked, Blank
  <2>3. Held(now) /\ now.enabled
    BY <2>1, <2>2, ClearedConfigHeld
  <2> HIDE DEF now
  <2>4. PInv'  BY <1>1, <2>1, <2>3, SendStep
  <2> QED  BY <2>1, <2>4 DEF Send
<1>10. CASE \E k \in Key : DeleteKey(i, p, k)
  <2>1. PICK k \in Key : Send(i, p, "delete", None, k, r) /\ late' = late
    BY <1>10 DEF DeleteKey
  <2>2. PInv'  BY <1>1, <2>1, SendStep
  <2> QED  BY <2>1, <2>2 DEF Send
<1>11. CASE \E kind \in {"logout", "shutdown"} : Leave(i, p, kind)
  <2> DEFINE now == LeaveSignedIn(r)
  <2>1. PICK kind \in {"logout", "shutdown"} : Send(i, p, kind, None, None, now) /\ Leaving(p)
    BY <1>11 DEF Leave
  <2>2. Held(now) /\ Empty(now)
    BY <1>1, LeftHeld
  <2>3. late' \subseteq Page /\ late \subseteq late' /\ (p \in late' \/ ~OnItsWay(p))
    BY <1>1, <2>1 DEF Leaving
  <2> HIDE DEF now
  <2>4. PInv'  BY <2>1, <2>2, <2>3, SendStep
  <2> QED  BY <2>1, <2>4 DEF Send
<1> QED
  BY <1>3, <1>4, <1>5, <1>6, <1>7, <1>8, <1>9, <1>10, <1>11 DEF Handle

(* What the page does without a request.                                   *)
LEMMA AloneStep ==
    ASSUME PInv, NEW p \in Page, NEW now, Held(now), page' = [page EXCEPT ![p] = now],
           now.enabled = page[p].enabled, now.enabled \/ (Empty(page[p]) => Empty(now)),
           UNCHANGED <<adminVars, direct, cookie, active, created, slot, late>>
    PROVE  PInv'
<1>1. DOMAIN page' = Page /\ \A q \in Page : Held(page'[q])
  BY DEF PInv
<1>2. Typed'  BY DEF PInv, Typed
<1>3. Emptied'  BY DEF PInv, Emptied, OnItsWay
<1> QED  BY <1>1, <1>2, <1>3 DEF PInv

LEMMA CancelRecoveryStep ==
    ASSUME PInv, NEW p \in Page, CancelRecovery(p)
    PROVE  PInv' /\ UNCHANGED adminVars
<1> DEFINE now == [page[p] EXCEPT !.token = None, !.shown = {"login"}]
<1>1. Held(page[p])  BY DEF PInv
<1>2. /\ Held(now) /\ now.enabled = page[p].enabled
      /\ Empty(page[p]) => Empty(now)
  BY <1>1 DEF Held, PageTyped, Tracked, Blank, Empty
<1>3. page' = [page EXCEPT ![p] = now]
      /\ UNCHANGED <<adminVars, direct, cookie, active, created, slot, late>>
  BY DEF CancelRecovery, PInv
<1> HIDE DEF now
<1> QED  BY <1>2, <1>3, AloneStep

LEMMA TypeKeyStep ==
    ASSUME PInv, NEW p \in Page, NEW k \in Key, TypeKey(p, k)
    PROVE  PInv' /\ UNCHANGED adminVars
<1> DEFINE now == [page[p] EXCEPT !.typed = k]
<1>1. Held(page[p])  BY DEF PInv
<1>2. Held(now) /\ now.enabled = page[p].enabled
  BY <1>1 DEF Held, PageTyped, Tracked, Blank
<1>3. page[p].enabled /\ page' = [page EXCEPT ![p] = now]
      /\ UNCHANGED <<adminVars, direct, cookie, active, created, slot, late>>
  BY DEF TypeKey, Usable, PInv
<1> HIDE DEF now
<1> QED  BY <1>2, <1>3, AloneStep

LEMMA ReloadStep ==
    ASSUME PInv, NEW p \in Page, Reload(p)
    PROVE  PInv' /\ UNCHANGED adminVars
<1>1. /\ page' = [page EXCEPT ![p] = Opened]
      /\ slot' = [i \in Slot |->
            IF slot[i].page # p THEN slot[i]
            ELSE IF slot[i].at = "asking" THEN [slot[i] EXCEPT !.page = None]
            ELSE Free]
      /\ late' = late \ {p}
      /\ UNCHANGED <<adminVars, direct, cookie, active, created>>
  BY DEF Reload
<1>2. Held(Opened) /\ Empty(Opened)
  BY OpenedHeld DEF PInv, Typed
<1>3. DOMAIN page' = Page /\ \A q \in Page : Held(page'[q])
  BY <1>1, <1>2 DEF PInv
<1>4. ASSUME NEW j \in Slot, slot[j].at = "asking"
      PROVE  /\ Sent([slot[j] EXCEPT !.page = None])
             /\ [slot[j] EXCEPT !.page = None].kind = "challenge"
             /\ [slot[j] EXCEPT !.page = None].page = None
  BY <1>4 DEF PInv, Sent, Free
<1>5. DOMAIN slot' = Slot /\ \A j \in Slot : Sent(slot'[j])
  BY <1>1, <1>4, FreeSent DEF PInv
<1>6. \A j \in Slot : \/ slot'[j] = slot[j] /\ slot[j].page # p
                      \/ slot'[j].kind \notin {"create", "opencode"}
  BY <1>1, <1>4, FreeSent
<1>7. Typed'  BY <1>1 DEF PInv, Typed
<1>8. Emptied'
  <2>1. \A q \in Page : OnItsWay(q)' => OnItsWay(q) /\ q # p
    BY <1>6 DEF OnItsWay
  <2> QED  BY <1>1, <1>2, <2>1 DEF PInv, Emptied
<1> QED  BY <1>1, <1>3, <1>5, <1>7, <1>8 DEF PInv

-----------------------------------------------------------------------------
(* The Supervisor's routes.                                                *)

Spends ==
    stored' # stored => stored'.by \in Members(challenges) /\ stored'.by \notin tried

LEMMA PageVars ==
    ASSUME PInv, UNCHANGED pageVars
    PROVE  /\ UNCHANGED <<direct, page, cookie, late>>
           /\ active' \subseteq created' /\ created' \subseteq Key
  BY DEF PInv, Typed, pageVars

LEMMA ServeLoginStep ==
    ASSUME IInv, NEW i \in Slot, ServeLogin(i)
    PROVE  IInv' /\ Spends
<1>1. /\ slot[i].kind = "login" /\ slot[i].at = "sent" /\ UNCHANGED pageVars
  BY DEF ServeLogin, Received
<1>2. CASE \E s \in NewToken : Login(slot[i].password, s) /\ Answer(i, "yes", s)
  <2>1. PICK s : Login(slot[i].password, s) /\ Answer(i, "yes", s)  BY <1>2
  <2>2. AInv'  BY <2>1, LoginStep DEF IInv
  <2>3. s \in Session /\ stored' = stored  BY <2>1 DEF Login
  <2>4. PInv'  BY <1>1, <2>1, <2>3, PageVars, AnswerStep DEF IInv
  <2> QED  BY <2>2, <2>3, <2>4 DEF IInv, Spends
<1>3. CASE LoginFails(slot[i].password) /\ Answer(i, "no", None)
  <2>1. UNCHANGED adminVars  BY <1>3 DEF LoginFails
  <2>2. PInv'  BY <1>1, <1>3, PageVars, AnswerStep DEF IInv
  <2> QED  BY <2>1, <2>2, AdminSame DEF IInv, Spends, adminVars
<1> QED  BY <1>2, <1>3 DEF ServeLogin

LEMMA ServeChallengeStep ==
    ASSUME IInv, NEW i \in Slot, ServeChallenge(i)
    PROVE  IInv' /\ Spends
<1>1. slot[i].kind = "challenge" /\ UNCHANGED pageVars
  BY DEF ServeChallenge, Received
<1>2. CASE OpenDialog /\ slot' = [slot EXCEPT ![i].at = "asking"]
  <2>1. AInv' /\ stored' = stored  BY <1>2, NoChallengeStep DEF IInv, OpenDialog
  <2>2. DOMAIN slot' = Slot /\ \A j \in Slot : j # i => slot'[j] = slot[j]
    BY <1>2 DEF IInv, PInv
  <2>3. Sent(slot'[i]) /\ slot'[i].kind = slot[i].kind /\ slot'[i].page = slot[i].page
    BY <1>1, <1>2 DEF IInv, PInv, Sent, Free
  <2>4. \A j \in Slot : /\ Sent(slot'[j]) /\ slot'[j].kind = slot[j].kind
                        /\ slot'[j].page = slot[j].page
    BY <2>2, <2>3 DEF IInv, PInv
  <2>5. PInv'  BY <1>1, <2>2, <2>4, PageVars, SlotStep DEF IInv
  <2> QED  BY <2>1, <2>5 DEF IInv, Spends
<1>3. CASE Answer(i, "no", None) /\ UNCHANGED adminVars
  <2>1. PInv'  BY <1>1, <1>3, PageVars, AnswerStep DEF IInv
  <2> QED  BY <1>3, <2>1, AdminSame DEF IInv, Spends, adminVars
<1> QED  BY <1>2, <1>3 DEF ServeChallenge

LEMMA DialogClosesStep ==
    ASSUME IInv, NEW i \in Slot, DialogCloses(i)
    PROVE  IInv' /\ Spends
<1>1. slot[i].kind = "challenge" /\ UNCHANGED pageVars
  BY DEF DialogCloses, IInv, PInv, Sent
<1>2. CASE \E c \in Challenge : Confirm(c) /\ Answer(i, "yes", c)
  <2>1. PICK c \in Challenge : Confirm(c) /\ Answer(i, "yes", c)  BY <1>2
  <2>2. AInv' /\ stored' = stored  BY <2>1, ConfirmStep DEF IInv, Confirm
  <2>3. PInv'  BY <1>1, <2>1, PageVars, AnswerStep DEF IInv
  <2> QED  BY <2>2, <2>3 DEF IInv, Spends
<1>3. CASE NotConfirmed /\ Answer(i, "no", None)
  <2>1. AInv' /\ stored' = stored  BY <1>3, NoChallengeStep DEF IInv, NotConfirmed
  <2>2. PInv'  BY <1>1, <1>3, PageVars, AnswerStep DEF IInv
  <2> QED  BY <2>1, <2>2 DEF IInv, Spends
<1> QED  BY <1>2, <1>3 DEF DialogCloses

LEMMA ServeCompleteStep ==
    ASSUME IInv, NEW i \in Slot, ServeComplete(i)
    PROVE  IInv' /\ Spends
<1> DEFINE c == slot[i].arg
           password == slot[i].password
<1>1. /\ up /\ slot[i].kind = "complete" /\ slot[i].at = "sent" /\ UNCHANGED pageVars
      /\ password \in Password \cup {"short"}
  BY DEF ServeComplete, Received, IInv, PInv, Sent
<1>2. c \in Members(challenges) => c \notin tried
  BY <1>1 DEF IInv, AInv, Unspent
<1>3. CASE password # "short" /\ Complete(c, password) /\ Answer(i, "yes", None)
  <2>1. PInv'  BY <1>1, <1>3, PageVars, AnswerStep DEF IInv
  <2>2. AInv'  BY <1>1, <1>3, CompleteStep DEF IInv
  <2>3. Spends  BY <1>2, <1>3 DEF Spends, Complete, Replaced
  <2> QED  BY <2>1, <2>2, <2>3 DEF IInv
<1>4. CASE CompleteRaises(c) /\ Answer(i, "no", None)
  <2>1. PInv'  BY <1>1, <1>4, PageVars, AnswerStep DEF IInv
  <2>2. AInv' /\ stored' = stored  BY <1>4, CompleteRaisesStep DEF IInv, CompleteRaises
  <2> QED  BY <2>1, <2>2 DEF IInv, Spends
<1>5. CASE password # "short" /\ CompleteDies(c, password) /\ slot' = [slot EXCEPT ![i] = Free]
  <2>1. PInv'  BY <1>1, <1>5, FreeStep DEF IInv
  <2>2. AInv'  BY <1>1, <1>5, CompleteDiesStep DEF IInv
  <2>3. Spends  BY <1>2, <1>5 DEF Spends, CompleteDies, Replaced
  <2> QED  BY <2>1, <2>2, <2>3 DEF IInv
<1>6. CASE UNCHANGED adminVars /\ Answer(i, "no", None)
  <2>1. PInv'  BY <1>1, <1>6, PageVars, AnswerStep DEF IInv
  <2> QED  BY <1>6, <2>1, AdminSame DEF IInv, Spends, adminVars
<1> QED  BY <1>3, <1>4, <1>5, <1>6 DEF ServeComplete, CompleteRefused

LEMMA ForbidStep ==
    ASSUME IInv, NEW i \in Slot, Forbid(i)
    PROVE  IInv' /\ Spends
<1>1. UNCHANGED adminVars /\ UNCHANGED pageVars
  BY DEF Forbid
<1>2. PICK ok \in {"forbidden", "no"} : Answer(i, ok, None)
  BY DEF Forbid
<1>3. PInv'  BY <1>1, <1>2, PageVars, AnswerStep DEF IInv
<1> QED  BY <1>1, <1>3, AdminSame DEF IInv, Spends, adminVars

LEMMA ServeControlledStep ==
    ASSUME IInv, NEW i \in Slot, ServeControlled(i)
    PROVE  IInv' /\ Spends
<1>1. /\ slot[i].at = "sent" /\ Effect(i) /\ UNCHANGED <<direct, page, cookie, late>>
      /\ slot[i].kind \in Controlled
  BY DEF ServeControlled, Received
<1>2. AInv' /\ stored' = stored
  <2>1. CASE slot[i].kind = "logout"
    <3>1. Logout(slot[i].cookie)  BY <2>1 DEF ServeControlled
    <3>2. \/ \E n \in DOMAIN sessions : sessions' = RemoveAt(sessions, n)
          \/ sessions' = sessions
      BY <3>1 DEF Logout
    <3>3. UNCHANGED <<stored, memory, challenges, dialog, up, issued, tried>>
      BY <3>1 DEF Logout
    <3> QED  BY <3>2, <3>3, ShorterStep DEF IInv
  <2>2. CASE slot[i].kind # "logout"
    <3>1. UNCHANGED adminVars  BY <2>2 DEF ServeControlled
    <3> QED  BY <3>1, AdminSame DEF IInv, adminVars
  <2> QED  BY <2>1, <2>2
<1>3. active \subseteq created /\ created \subseteq Key
  BY DEF IInv, PInv, Typed
<1>4. PInv'
  <2>1. CASE slot[i].kind = "create"
             /\ \E k \in Key \ created : /\ active' = active \cup {k}
                                         /\ created' = created \cup {k}
                                         /\ Answer(i, "yes", k)
    <3>1. PICK k \in Key : /\ active' = active \cup {k} /\ created' = created \cup {k}
                           /\ Answer(i, "yes", k)
      BY <2>1
    <3>2. active' \subseteq created' /\ created' \subseteq Key  BY <1>3, <3>1
    <3> QED  BY <1>1, <2>1, <3>1, <3>2, AnswerStep DEF IInv
  <2>2. CASE slot[i].kind = "delete" /\ active' = active \ {slot[i].arg}
             /\ Answer(i, "yes", None) /\ UNCHANGED created
    <3>1. active' \subseteq created' /\ created' \subseteq Key  BY <1>3, <2>2
    <3> QED  BY <1>1, <2>2, <3>1, AnswerStep DEF IInv
  <2>3. CASE Answer(i, "no", None) /\ UNCHANGED <<active, created>>
    <3>1. active' \subseteq created' /\ created' \subseteq Key  BY <1>3, <2>3
    <3> QED  BY <1>1, <2>3, <3>1, AnswerStep DEF IInv
  <2>4. CASE slot[i].kind \in {"load", "opencode", "cline", "logout", "shutdown"}
             /\ Answer(i, "yes", None) /\ UNCHANGED <<active, created>>
    <3>1. active' \subseteq created' /\ created' \subseteq Key  BY <1>3, <2>4
    <3> QED  BY <1>1, <2>4, <3>1, AnswerStep DEF IInv
  <2> QED  BY <1>1, <2>1, <2>2, <2>3, <2>4 DEF Effect
<1> QED  BY <1>2, <1>4 DEF IInv, Spends

-----------------------------------------------------------------------------
(* The handlers, from their await on.                                      *)

LEMMA GoOnStep ==
    ASSUME PInv, NEW i \in Slot, GoOn(i)
    PROVE  PInv' /\ UNCHANGED adminVars
<1> DEFINE p == slot[i].page
           r == page[p]
<1>1. /\ p \in Page => Held(r)
      /\ p \in Page => r.enabled \/ p \in late \/ (Empty(r) /\ ~OnItsWay(p))
      /\ late \subseteq Page /\ cookie \in Session \cup {None} /\ Sent(slot[i])
  BY DEF PInv, Emptied, Typed
<1>2. ASSUME NEW kind, NEW now, Continue(i, kind, now)
      PROVE  p \in Page /\ slot[i].kind = kind /\ UNCHANGED adminVars
  BY <1>1, <1>2 DEF Continue, Sent
<1>3. CASE LoginAnswered(i)
  <2>1. UNCHANGED <<adminVars, direct, active, created, late>> /\ slot[i].kind = "login"
    BY <1>3 DEF LoginAnswered
  <2>2. CASE slot[i].ok = "yes"
    <3> DEFINE now == [r EXCEPT !.signedIn = TRUE, !.enabled = TRUE, !.shown = {}]
               s == [Free EXCEPT !.kind = "load", !.page = p, !.cookie = cookie', !.at = "sent"]
    <3>1. /\ cookie' \in Session
          /\ page' = [page EXCEPT ![p] = now] /\ slot' = [slot EXCEPT ![i] = s]
      BY <1>1, <1>3, <2>2 DEF LoginAnswered, Sent
    <3>2. p \in Page => Held(now) /\ now.enabled
      BY <1>1 DEF Held, PageTyped, Tracked, Blank
    <3>3. Sent(s) /\ s.kind = "load"
      BY <1>1 DEF Sent, Free
    <3> HIDE DEF now, s
    <3>4. DOMAIN slot' = Slot /\ \A j \in Slot : Sent(slot'[j])
      BY <3>1, <3>3 DEF PInv
    <3>5. DOMAIN page' = Page /\ \A q \in Page : Held(page'[q])
      BY <3>1, <3>2 DEF PInv
    <3>6. Typed'
      BY <2>1, <3>1 DEF PInv, Typed
    <3>7. \A q \in Page : OnItsWay(q)' => OnItsWay(q)
      BY <3>1, <3>3 DEF OnItsWay, PInv
    <3>8. Emptied'
      BY <2>1, <3>1, <3>2, <3>7 DEF Emptied, PInv
    <3> QED  BY <2>1, <3>4, <3>5, <3>6, <3>8 DEF PInv
  <2>3. CASE slot[i].ok # "yes"
    <3>1. slot' = [slot EXCEPT ![i] = Free] /\ UNCHANGED <<page, cookie>>
      BY <1>3, <2>3 DEF LoginAnswered
    <3> QED  BY <2>1, <3>1, FreeStep DEF pageVars
  <2> QED  BY <2>2, <2>3
<1>4. CASE ChallengeAnswered(i)
  <2> DEFINE now == IF slot[i].ok # "yes" THEN r
                    ELSE [r EXCEPT !.token = slot[i].answer,
                                   !.shown = (@ \ {"login"}) \cup {"recovery"}]
  <2>1. Continue(i, "challenge", now) /\ UNCHANGED <<cookie, late>>
    BY <1>4 DEF ChallengeAnswered
  <2>2. p \in Page /\ slot[i].kind = "challenge" /\ UNCHANGED adminVars
    BY <1>2, <2>1
  <2>3. Held(now) /\ now.enabled = r.enabled /\ (Empty(r) => Empty(now))
    BY <1>1, <2>2 DEF Held, PageTyped, Tracked, Blank, Empty, Sent
  <2> HIDE DEF now
  <2>4. PInv'  BY <1>1, <2>1, <2>2, <2>3, ContinueStep
  <2> QED  BY <2>2, <2>4
<1>5. CASE CompleteAnswered(i)
  <2> DEFINE now == [r EXCEPT !.token = None, !.shown = (@ \ {"recovery"}) \cup {"login"}]
  <2>1. Continue(i, "complete", now) /\ late' = late /\ cookie' \in Session \cup {None}
    BY <1>1, <1>5 DEF CompleteAnswered
  <2>2. p \in Page /\ UNCHANGED adminVars
    BY <1>2, <2>1
  <2>3. Held(now) /\ now.enabled = r.enabled /\ (Empty(r) => Empty(now))
    BY <1>1, <2>2 DEF Held, PageTyped, Tracked, Blank, Empty
  <2> HIDE DEF now
  <2>4. PInv'  BY <1>1, <2>1, <2>2, <2>3, ContinueStep
  <2> QED  BY <2>2, <2>4
<1>6. CASE LoadAnswered(i)
  <2> DEFINE left == slot[i].ok = "forbidden" /\ ~direct
             now == IF left THEN ShowLogin(LeaveSignedIn(r)) ELSE r
  <2>1. /\ Continue(i, "load", now) /\ cookie' = cookie
        /\ IF left THEN Leaving(p) ELSE UNCHANGED late
    BY <1>6 DEF LoadAnswered
  <2>2. p \in Page /\ UNCHANGED adminVars
    BY <1>2, <2>1
  <2>3. late' \subseteq Page /\ late \subseteq late' /\ (left => p \in late' \/ ~OnItsWay(p))
    BY <1>1, <2>1, <2>2 DEF Leaving
  <2>4. CASE left
    <3>1. now = ShowLogin(LeaveSignedIn(r))  BY <2>4
    <3>2. Held(now) /\ Empty(now)
      BY <1>1, <2>2, <3>1, LeftHeld, LoginShownHeld
    <3> HIDE DEF now, left
    <3>3. PInv'  BY <1>1, <2>1, <2>2, <2>3, <2>4, <3>2, ContinueStep
    <3> QED  BY <2>2, <3>3
  <2>5. CASE ~left
    <3>1. now = r  BY <2>5
    <3> HIDE DEF now, left
    <3>2. PInv'  BY <1>1, <2>1, <2>2, <2>3, <3>1, ContinueStep
    <3> QED  BY <2>2, <3>2
  <2> QED  BY <2>4, <2>5
<1>7. CASE CreateAnswered(i)
  <2> DEFINE now == IF slot[i].ok # "yes" THEN r
                    ELSE [r EXCEPT !.key = slot[i].answer, !.keyId = slot[i].answer,
                                   !.result = @ \cup {slot[i].answer}]
  <2>1. Continue(i, "create", now) /\ UNCHANGED <<cookie, late>>
    BY <1>7 DEF CreateAnswered
  <2>2. p \in Page /\ slot[i].kind = "create" /\ UNCHANGED adminVars
    BY <1>2, <2>1
  <2>3. Held(now) /\ now.enabled = r.enabled
    BY <1>1, <2>2 DEF Held, PageTyped, Tracked, Blank, Sent
  <2> HIDE DEF now
  <2>4. PInv'  BY <1>1, <2>1, <2>2, <2>3, ContinueStep
  <2> QED  BY <2>2, <2>4
<1>8. CASE DeleteAnswered(i)
  <2> DEFINE k == slot[i].arg
             cleared == IF r.keyId = k THEN ClearGatewayKey(r) ELSE r
             now == IF slot[i].ok # "yes" THEN r
                    ELSE IF cleared.prefix = k THEN ClearConfig(cleared) ELSE cleared
  <2>1. Continue(i, "delete", now) /\ UNCHANGED <<cookie, late>>
    BY <1>8 DEF DeleteAnswered
  <2>2. p \in Page /\ UNCHANGED adminVars
    BY <1>2, <2>1
  <2>3. Held(cleared) /\ cleared.enabled = r.enabled /\ (Empty(r) => Empty(cleared))
    BY <1>1, <2>2, ClearedKeyHeld
  <2> HIDE DEF cleared
  <2>4. Held(now) /\ now.enabled = r.enabled /\ (Empty(r) => Empty(now))
    BY <1>1, <2>2, <2>3, ClearedConfigHeld
  <2> HIDE DEF now
  <2>5. PInv'  BY <1>1, <2>1, <2>2, <2>4, ContinueStep
  <2> QED  BY <2>2, <2>5
<1>9. CASE ConfigAnswered(i)
  <2>1. PICK kind \in {"opencode", "cline"} :
           Continue(i, kind, IF slot[i].ok = "yes" THEN Generated(r, kind, slot[i].arg) ELSE r)
    BY <1>9 DEF ConfigAnswered
  <2> DEFINE now == IF slot[i].ok = "yes" THEN Generated(r, kind, slot[i].arg) ELSE r
  <2>2. p \in Page /\ slot[i].kind = kind /\ UNCHANGED adminVars
    BY <1>2, <2>1
  <2>3. UNCHANGED <<cookie, late>>  BY <1>9 DEF ConfigAnswered
  <2>4. slot[i].ok = "yes" /\ kind = "opencode" => slot[i].arg \in Key
    BY <1>1, <2>2 DEF Sent
  <2>5. /\ Held(now) /\ now.enabled = r.enabled
        /\ kind = "cline" /\ Empty(r) => Empty(now)
    BY <1>1, <2>2, <2>4, GeneratedHeld
  <2>6. Continue(i, kind, now)  BY <2>1
  <2> HIDE DEF now
  <2>7. PInv'  BY <1>1, <2>2, <2>3, <2>5, <2>6, ContinueStep
  <2> QED  BY <2>2, <2>7
<1>10. CASE LogoutAnswered(i)
  <2> DEFINE now == IF slot[i].ok = "yes" THEN ShowLogin(r) ELSE r
  <2>1. Continue(i, "logout", now) /\ late' = late /\ cookie' \in Session \cup {None}
    BY <1>1, <1>10 DEF LogoutAnswered
  <2>2. p \in Page /\ UNCHANGED adminVars
    BY <1>2, <2>1
  <2>3. Held(now) /\ now.enabled = r.enabled /\ (Empty(r) => Empty(now))
    BY <1>1, <2>2, LoginShownHeld
  <2> HIDE DEF now
  <2>4. PInv'  BY <1>1, <2>1, <2>2, <2>3, ContinueStep
  <2> QED  BY <2>2, <2>4
<1>11. CASE ShutdownAnswered(i)
  <2>1. Continue(i, "shutdown", r) /\ UNCHANGED <<cookie, late>>
    BY <1>11 DEF ShutdownAnswered
  <2>2. p \in Page /\ UNCHANGED adminVars
    BY <1>2, <2>1
  <2>3. PInv'  BY <1>1, <2>1, <2>2, ContinueStep
  <2> QED  BY <2>2, <2>3
<1>12. CASE Abandoned(i)
  BY <1>12, FreeStep DEF Abandoned
<1>13. CASE Rejected(i)
  BY <1>13, FreeStep DEF Rejected
<1> QED
  BY <1>3, <1>4, <1>5, <1>6, <1>7, <1>8, <1>9, <1>10, <1>11, <1>12, <1>13 DEF GoOn

-----------------------------------------------------------------------------
LEMMA StartInv == Init => IInv
<1> SUFFICES ASSUME Init PROVE IInv  OBVIOUS
<1>1. /\ stored \in Verifier /\ memory = stored /\ sessions = <<>> /\ challenges = <<>>
      /\ dialog = FALSE /\ up = TRUE /\ issued = {} /\ tried = {}
  BY DEF Init, AdminInit, Verifier
<1>2. /\ sessions \in Seq([token : Session, by : Verifier]) /\ Len(sessions) <= MaxSessions
      /\ Members(sessions) = {}
  BY <1>1, EmptySeq, LimitAssumption DEF Members
<1>3. /\ challenges \in Seq(Challenge) /\ Len(challenges) <= MaxChallenges
      /\ Members(challenges) = {} /\ IsInjective(challenges)
  BY <1>1, EmptySeq, LimitAssumption DEF Members, IsInjective
<1>4. AdminTypeOK  BY <1>1, <1>2, <1>3 DEF AdminTypeOK
<1>5. SessionsKnowThePassword  BY <1>1, <1>2 DEF SessionsKnowThePassword
<1>6. Unspent  BY <1>1, <1>3 DEF Unspent
<1>7. /\ direct \in BOOLEAN /\ page = [p \in Page |-> Opened] /\ cookie = None
      /\ active = {} /\ created = {} /\ slot = [i \in Slot |-> Free] /\ late = {}
  BY DEF Init
<1>8. Held(Opened) /\ Empty(Opened)  BY <1>7, OpenedHeld
<1>9. Typed  BY <1>7 DEF Typed
<1>10. Emptied  BY <1>7, <1>8, FreeSent DEF Emptied, OnItsWay
<1>11. PInv  BY <1>7, <1>8, <1>9, <1>10, FreeSent DEF PInv
<1> QED  BY <1>4, <1>5, <1>6, <1>11 DEF IInv, AInv

LEMMA NextStep ==
    ASSUME IInv, [Next]_vars
    PROVE  IInv' /\ Spends
<1>1. ASSUME PInv', UNCHANGED adminVars
      PROVE  IInv' /\ Spends
  BY <1>1, AdminSame DEF IInv, Spends, adminVars
<1>2. CASE \E p \in Page : CancelRecovery(p) \/ Reload(p) \/ \E k \in Key : TypeKey(p, k)
  BY <1>1, <1>2, CancelRecoveryStep, ReloadStep, TypeKeyStep DEF IInv
<1>3. CASE \E p \in Page, i \in Slot : Handle(i, p)
  BY <1>1, <1>3, HandleStep DEF IInv
<1>4. CASE \E i \in Slot : Serve(i)
  BY <1>4, ServeLoginStep, ServeChallengeStep, DialogClosesStep, ServeCompleteStep,
     ForbidStep, ServeControlledStep DEF Serve
<1>5. CASE \E i \in Slot : GoOn(i)
  BY <1>1, <1>5, GoOnStep DEF IInv
<1>6. CASE (ExpireSession \/ ExpireChallenge \/ Die) /\ UNCHANGED <<pageVars, slot>>
  <2>1. PInv'
    BY <1>6 DEF IInv, PInv, Typed, Emptied, OnItsWay, pageVars
  <2>2. CASE ExpireSession
    BY <2>1, <2>2, ShorterStep DEF ExpireSession, IInv, Spends
  <2>3. CASE ExpireChallenge
    BY <2>1, <2>3, ExpireChallengeStep DEF ExpireChallenge, IInv, Spends
  <2>4. CASE Die
    <3>1. stored' \in Verifier /\ tried' \subseteq issued /\ stored' = stored
      BY <2>4 DEF Die, IInv, AInv, AdminTypeOK
    <3> QED  BY <2>1, <2>4, <3>1, DownStep DEF Die, IInv, Spends
  <2> QED  BY <1>6, <2>2, <2>3, <2>4
<1>7. CASE Restart /\ UNCHANGED pageVars
           /\ slot' = [i \in Slot |-> IF slot[i].at = "asking" THEN Free ELSE slot[i]]
  <2>1. DOMAIN slot' = Slot /\ \A j \in Slot : Sent(slot'[j])
    BY <1>7, FreeSent DEF IInv, PInv
  <2>2. \A j \in Slot : slot'[j] = slot[j] \/ slot'[j].kind \notin {"create", "opencode"}
    BY <1>7, FreeSent
  <2>3. PInv'
    BY <1>7, <2>1, <2>2, PageVars, SlotStep DEF IInv
  <2>4. AInv' /\ stored' = stored
    BY <1>7, RestartStep DEF Restart, IInv
  <2> QED  BY <2>3, <2>4 DEF IInv, Spends
<1>8. CASE UNCHANGED vars
  <2>1. PInv'
    BY <1>8 DEF vars, IInv, PInv, Typed, Emptied, OnItsWay
  <2> QED  BY <1>1, <1>8, <2>1 DEF vars
<1> QED
  BY <1>2, <1>3, <1>4, <1>5, <1>6, <1>7, <1>8 DEF Next

LEMMA Invariance == Spec => []IInv
<1>1. IInv /\ [Next]_vars => IInv'  BY NextStep
<1> QED  BY <1>1, StartInv, PTL DEF Spec

-----------------------------------------------------------------------------
(* TypeOK is invariant: the limits on sessions and on challenges among it. *)
THEOREM TypeCorrect == Spec => []TypeOK
<1>1. IInv => TypeOK
  BY DEF IInv, AInv, PInv, Typed, Held, PageTyped, TypeOK
<1> QED  BY <1>1, Invariance, PTL

(* However many recoveries, restarts and logins there were, a session that *)
(* is open was opened with the password stored now.                        *)
THEOREM SessionsCurrent == Spec => []SessionsKnowThePassword
<1>1. IInv => SessionsKnowThePassword  BY DEF IInv, AInv
<1> QED  BY <1>1, Invariance, PTL

(* The page can find every key it holds.                                   *)
THEOREM KeysTracked == Spec => []KeysAreTracked
<1>1. IInv => KeysAreTracked
  BY DEF IInv, PInv, Held, Tracked, KeysAreTracked
<1> QED  BY <1>1, Invariance, PTL

(* A page that was left holds no key, unless one was on its way to it.     *)
THEOREM LeftEmpty == Spec => []LeavingForgets
<1>1. IInv => LeavingForgets
  BY DEF IInv, PInv, Emptied, Empty, LeavingForgets
<1> QED  BY <1>1, Invariance, PTL

(* The password changes only through a confirmed challenge that was never  *)
(* tried before.                                                           *)
THEOREM ChallengesSpentOnce == Spec => OneTryPerConfirmation
<1>1. IInv /\ [Next]_vars => [Spends]_adminVars  BY NextStep
<1>2. Spec => [][Spends]_adminVars
  BY <1>1, Invariance, PTL DEF Spec
<1> QED  BY <1>2 DEF OneTryPerConfirmation, Spends

-----------------------------------------------------------------------------
(* What the steps of the whole do to the Supervisor's state.               *)

Attempt(c, password) ==
    up /\ (CompleteRaises(c) \/ Complete(c, password) \/ CompleteDies(c, password))

AdminMove ==
    \/ UNCHANGED adminVars \/ OpenDialog \/ NotConfirmed
    \/ up /\ \E password \in Password, s \in Session : Login(password, s)
    \/ up /\ \E c \in Challenge : Confirm(c)
    \/ \E c \in Challenge, password \in Password : Attempt(c, password)
    \/ \E token : Logout(token)
    \/ ExpireSession \/ ExpireChallenge \/ Die \/ Restart

LEMMA ServeMoves ==
    ASSUME IInv, NEW i \in Slot, Serve(i)
    PROVE  AdminMove
<1>1. CASE ServeLogin(i)
  <2>1. up /\ slot[i].password \in Password
    BY <1>1 DEF ServeLogin, Received, IInv, PInv, Sent
  <2>2. CASE LoginFails(slot[i].password)
    BY <2>2 DEF LoginFails, AdminMove
  <2>3. CASE \E s : Login(slot[i].password, s)
    BY <2>1, <2>3 DEF Login, AdminMove
  <2> QED  BY <1>1, <2>2, <2>3 DEF ServeLogin
<1>2. CASE ServeChallenge(i) \/ DialogCloses(i)
  BY <1>2 DEF ServeChallenge, DialogCloses, AdminMove
<1>3. CASE ServeComplete(i)
  <2>1. up /\ slot[i].password \in Password \cup {"short"}
    BY <1>3 DEF ServeComplete, Received, IInv, PInv, Sent
  <2>2. CASE CompleteRefused(slot[i].arg, slot[i].password = "short")
    BY <2>2 DEF CompleteRefused, AdminMove
  <2>3. CASE /\ slot[i].password # "short"
             /\ Attempt(slot[i].arg, slot[i].password)
    <3>1. slot[i].arg \in Challenge
      BY <2>3 DEF Attempt, Complete, CompleteRaises, CompleteDies, IInv, AInv, AdminTypeOK,
         Unspent
    <3> QED  BY <2>1, <2>3, <3>1 DEF AdminMove
  <2> QED  BY <1>3, <2>1, <2>2, <2>3 DEF ServeComplete, Attempt
<1>4. CASE Forbid(i)
  BY <1>4 DEF Forbid, AdminMove
<1>5. CASE ServeControlled(i)
  BY <1>5 DEF ServeControlled, AdminMove
<1> QED  BY <1>1, <1>2, <1>3, <1>4, <1>5 DEF Serve

LEMMA NextMoves ==
    ASSUME IInv, [Next]_vars
    PROVE  AdminMove
<1>1. ASSUME NEW i \in Slot, NEW p \in Page, Handle(i, p) PROVE UNCHANGED adminVars
  BY <1>1 DEF Handle, SubmitLogin, StartRecovery, SubmitRecovery, LoadDashboard, SubmitKey,
     ShowOpenCode, ShowCline, DeleteKey, Leave, Send
<1>2. ASSUME NEW i \in Slot, GoOn(i) PROVE UNCHANGED adminVars
  BY <1>2 DEF GoOn, LoginAnswered, ChallengeAnswered, CompleteAnswered, LoadAnswered,
     CreateAnswered, DeleteAnswered, ConfigAnswered, LogoutAnswered, ShutdownAnswered,
     Abandoned, Rejected, Continue
<1>3. ASSUME NEW p \in Page, CancelRecovery(p) \/ Reload(p) \/ \E k \in Key : TypeKey(p, k)
      PROVE  UNCHANGED adminVars
  BY <1>3 DEF CancelRecovery, Reload, TypeKey
<1>4. CASE UNCHANGED adminVars
  BY <1>4 DEF AdminMove
<1>5. CASE ExpireSession \/ ExpireChallenge \/ Die \/ Restart
  BY <1>5 DEF AdminMove
<1>6. CASE UNCHANGED vars
  BY <1>4, <1>6 DEF vars
<1> QED
  BY <1>1, <1>2, <1>3, <1>4, <1>5, <1>6, ServeMoves DEF Next

-----------------------------------------------------------------------------
(* What these do to the sessions that let a request in, and to the tickets *)
(* that the challenges are.                                                *)

LEMMA WaitingChallenges ==
    ASSUME AInv
    PROVE  /\ Recovery!Waiting = IF up THEN Members(challenges) ELSE {}
           /\ \A c \in Challenge : Stage(c) =
                 IF c \notin issued THEN "unissued"
                 ELSE IF up /\ c \in Members(challenges) THEN "waiting" ELSE "spent"
           /\ Members(challenges) \subseteq issued /\ issued \subseteq Challenge
  BY DEF AInv, Unspent, AdminTypeOK, Stage, Recovery!Waiting

LEMMA FewerSessions ==
    ASSUME AInv,
           \/ sessions # <<>> /\ sessions' = Tail(sessions)
           \/ \E n \in DOMAIN sessions : sessions' = RemoveAt(sessions, n)
    PROVE  \E o \in Members(sessions) :
              Members(sessions)' \in {Members(sessions), Members(sessions) \ {o}}
<1> DEFINE S == [token : Session, by : Verifier]
           Less(n) == /\ Members(sessions') \subseteq Members(sessions)
                      /\ \A m \in DOMAIN sessions \ {n} : sessions[m] \in Members(sessions')
<1>1. sessions \in Seq(S)
  BY DEF AInv, AdminTypeOK
<1> HIDE DEF S
<1>2. PICK n \in DOMAIN sessions : Less(n)
  <2>1. CASE sessions # <<>> /\ sessions' = Tail(sessions)
    <3>1. 1 \in DOMAIN sessions /\ Less(1)  BY <1>1, <2>1, TailMembers
    <3> QED  BY <3>1
  <2>2. CASE \E n \in DOMAIN sessions : sessions' = RemoveAt(sessions, n)
    <3>1. PICK n \in DOMAIN sessions : sessions' = RemoveAt(sessions, n)  BY <2>2
    <3>2. Less(n)  BY <1>1, <3>1, RemoveAtMembers
    <3> QED  BY <3>2
  <2> QED  BY <2>1, <2>2
<1>3. Members(sessions) \ {sessions[n]} \subseteq Members(sessions')
  BY <1>2 DEF Members
<1>4. sessions[n] \in Members(sessions)
  BY DEF Members
<1>5. Members(sessions)' = Members(sessions')
  BY DEF Members
<1> QED  BY <1>2, <1>3, <1>4, <1>5

LEMMA SessionsRefine ==
    ASSUME AInv, AInv', UNCHANGED <<stored, challenges, up, issued, tried>>,
           \/ sessions' = sessions
           \/ sessions # <<>> /\ sessions' = Tail(sessions)
           \/ \E n \in DOMAIN sessions : sessions' = RemoveAt(sessions, n)
    PROVE  [Recovery!Next]_(Recovery!rvars)
<1>1. UNCHANGED [c \in Challenge |-> Stage(c)]
  BY DEF Stage, Members
<1>2. CASE sessions' = sessions \/ ~up
  <2>1. Open' = Open  BY <1>2 DEF Open, Members
  <2> QED  BY <1>1, <2>1 DEF Recovery!rvars
<1>3. CASE sessions' # sessions /\ up
  <2>1. PICK o \in Members(sessions) :
           Members(sessions)' \in {Members(sessions), Members(sessions) \ {o}}
    BY <1>3, FewerSessions
  <2>2. o \in Open /\ Open' \in {Open, Open \ {o}}
    BY <1>3, <2>1 DEF Open
  <2> QED  BY <1>1, <2>2 DEF Recovery!Next, Recovery!Close, Recovery!rvars
<1> QED  BY <1>2, <1>3

LEMMA LoginRefines ==
    ASSUME AInv, up, NEW password, NEW s \in Session, Login(password, s)
    PROVE  Recovery!Next
<1> DEFINE e == [token |-> s, by |-> stored]
           S == [token : Session, by : Verifier]
<1>1. UNCHANGED <<stored, up>> /\ UNCHANGED [c \in Challenge |-> Stage(c)]
  BY DEF Login, Stage, Members
<1>2. Kept \in Seq(S) /\ e \in S /\ sessions' = Append(Kept, e)
  BY KeptMembers DEF Login, AInv, AdminTypeOK, SessionsKnowThePassword
<1> HIDE DEF e, S
<1>3. Members(sessions') = Members(Kept) \cup {e}
  BY <1>2, AppendMembers
<1>4. Members(Kept) \in {Open} \cup {Open \ {o} : o \in Open}
  <2>1. CASE Len(sessions) < MaxSessions
    BY <2>1 DEF Kept, Open
  <2>2. CASE ~(Len(sessions) < MaxSessions)
    <3>1. sessions \in Seq(S) /\ Kept = Tail(sessions)
      BY <2>2 DEF Kept, AInv, AdminTypeOK, S
    <3>2. sessions # <<>>
      BY <2>2, LimitAssumption, EmptySeq
    <3>3. /\ Members(Kept) \subseteq Members(sessions) /\ 1 \in DOMAIN sessions
          /\ \A m \in DOMAIN sessions \ {1} : sessions[m] \in Members(Kept)
      BY <3>1, <3>2, TailMembers
    <3>4. Members(sessions) \ {sessions[1]} \subseteq Members(Kept)
          /\ sessions[1] \in Members(sessions)
      BY <3>3 DEF Members
    <3> QED  BY <3>3, <3>4 DEF Open
  <2> QED  BY <2>1, <2>2
<1>5. Open' = Members(Kept) \cup {e}
  BY <1>1, <1>3 DEF Open, Members
<1>6. Recovery!Enter(s)
  BY <1>1, <1>4, <1>5 DEF Recovery!Enter, e
<1> QED  BY <1>6 DEF Recovery!Next

LEMMA IssueRefines ==
    ASSUME AInv, AInv', up, NEW c \in Challenge, Confirm(c)
    PROVE  Recovery!Next
<1>1. /\ c \notin issued /\ issued' = issued \cup {c}
      /\ UNCHANGED <<stored, up, sessions>>
      /\ challenges' = Append(challenges, c)
  BY DEF Confirm
<1>2. Members(challenges') = Members(challenges) \cup {c}
  BY <1>1, AppendMembers DEF AInv, AdminTypeOK
<1>3. Members(challenges)' = Members(challenges) \cup {c}
  BY <1>2 DEF Members
<1>4. \A d \in Challenge : Stage(d)' = IF d = c THEN "waiting" ELSE Stage(d)
  BY <1>1, <1>3, WaitingChallenges DEF AInv, Unspent, Stage
<1>5. UNCHANGED Open /\ Stage(c) = "unissued"
  BY <1>1 DEF Open, Members, Stage
<1>6. Recovery!Issue(c)
  BY <1>1, <1>4, <1>5 DEF Recovery!Issue
<1> QED  BY <1>6 DEF Recovery!Next

(* A step after which some of the waiting challenges wait no longer.       *)
LEMMA Spending ==
    ASSUME AInv, AInv', UNCHANGED issued, NEW lost,
           (IF up THEN Members(challenges) ELSE {})' =
              (IF up THEN Members(challenges) ELSE {}) \ lost,
           lost \subseteq Recovery!Waiting
    PROVE  Recovery!Spend(lost)
<1>1. \A d \in Challenge : Stage(d)' = IF d \in lost THEN "spent" ELSE Stage(d)
  BY WaitingChallenges DEF Stage, AInv, Unspent
<1> QED  BY <1>1 DEF Recovery!Spend

LEMMA AttemptRefines ==
    ASSUME AInv, AInv', NEW c \in Challenge, NEW password \in Password, Attempt(c, password)
    PROVE  Recovery!Next
<1>1. up /\ c \in Members(challenges) /\ issued' = issued
  BY DEF Attempt, Complete, CompleteRaises, CompleteDies
<1>2. c \in Recovery!Waiting /\ Recovery!Waiting = Members(challenges)
  BY <1>1, WaitingChallenges
<1>3. \A done \in BOOLEAN : Members(Consumed(c, done)) = Members(challenges) \ {c}
  BY <1>1, ConsumedMembers
<1>4. CASE CompleteRaises(c)
  <2>1. /\ challenges' = Consumed(c, FALSE) /\ UNCHANGED <<stored, sessions, up>>
    BY <1>4 DEF CompleteRaises
  <2>2. Members(challenges)' = Members(challenges) \ {c}
    BY <1>3, <2>1 DEF Members
  <2>3. Recovery!Spend({c})
    BY <1>1, <1>2, <2>1, <2>2, Spending
  <2>4. Recovery!Waste(c)
    BY <1>2, <2>1, <2>3 DEF Recovery!Waste, Open, Members
  <2> QED  BY <2>4 DEF Recovery!Next
<1>5. CASE Complete(c, password)
  <2>1. /\ challenges' = Consumed(c, TRUE) /\ up' = up /\ sessions' = <<>>
        /\ stored' = [password |-> password, by |-> c]
    BY <1>5 DEF Complete, Replaced
  <2>2. Members(challenges)' = Members(challenges) \ {c}
    BY <1>3, <2>1 DEF Members
  <2>3. Recovery!Spend({c})
    BY <1>1, <1>2, <2>1, <2>2, Spending
  <2>4. Open' = {}
    BY <2>1, EmptySeq DEF Open, Members
  <2>5. Recovery!Change(c, password)
    BY <1>2, <2>1, <2>3, <2>4 DEF Recovery!Change
  <2> QED  BY <2>5 DEF Recovery!Next
<1>6. CASE CompleteDies(c, password)
  <2>1. ~up' /\ stored' = [password |-> password, by |-> c]
    BY <1>6 DEF CompleteDies, Replaced
  <2>2. Recovery!Spend(Recovery!Waiting)
    BY <1>1, <1>2, <2>1, Spending
  <2>3. Open' = {}
    BY <2>1 DEF Open
  <2>4. Recovery!Change(c, password)
    BY <1>2, <2>1, <2>2, <2>3 DEF Recovery!Change
  <2> QED  BY <2>4 DEF Recovery!Next
<1> QED  BY <1>4, <1>5, <1>6 DEF Attempt

LEMMA ExpireRefines ==
    ASSUME AInv, AInv', ExpireChallenge
    PROVE  [Recovery!Next]_(Recovery!rvars)
<1>1. /\ challenges \in Seq(Challenge) /\ challenges # <<>> /\ challenges' = Tail(challenges)
      /\ UNCHANGED <<stored, sessions, up, issued, tried>>
  BY DEF ExpireChallenge, AInv, AdminTypeOK
<1>2. UNCHANGED Open
  BY <1>1 DEF Open, Members
<1>3. CASE ~up
  <2>1. UNCHANGED [c \in Challenge |-> Stage(c)]
    BY <1>1, <1>3 DEF Stage
  <2> QED  BY <1>1, <1>2, <2>1 DEF Recovery!rvars
<1>4. CASE up
  <2> DEFINE c == challenges[1]
  <2>1. /\ Members(challenges') \subseteq Members(challenges) /\ 1 \in DOMAIN challenges
        /\ \A m \in DOMAIN challenges \ {1} : challenges[m] \in Members(challenges')
        /\ c \notin Members(challenges')
    BY <1>1, TailMembers DEF AInv, Unspent
  <2>2. c \in Members(challenges) /\ Members(challenges') = Members(challenges) \ {c}
    BY <2>1 DEF Members
  <2>3. Members(challenges)' = Members(challenges) \ {c} /\ c \in Challenge
    BY <2>2, WaitingChallenges DEF Members
  <2>4. c \in Recovery!Waiting
    BY <1>4, <2>2, WaitingChallenges
  <2> HIDE DEF c
  <2>5. Recovery!Spend({c})
    BY <1>1, <1>4, <2>3, <2>4, Spending
  <2>6. Recovery!Waste(c)
    BY <1>1, <1>2, <2>4, <2>5 DEF Recovery!Waste
  <2> QED  BY <2>3, <2>6 DEF Recovery!Next
<1> QED  BY <1>3, <1>4

LEMMA StopRefines ==
    ASSUME AInv, AInv', Die
    PROVE  Recovery!Next
<1>1. up /\ ~up' /\ UNCHANGED <<stored, issued>>
  BY DEF Die
<1>2. Recovery!Spend(Recovery!Waiting)
  BY <1>1, WaitingChallenges, Spending
<1>3. Open' = {}
  BY <1>1 DEF Open
<1>4. Recovery!Stop
  BY <1>1, <1>2, <1>3 DEF Recovery!Stop
<1> QED  BY <1>4 DEF Recovery!Next

(* What a restart leaves was lost already.                                 *)
LEMMA RestartRefines ==
    ASSUME AInv, Restart
    PROVE  UNCHANGED Recovery!rvars
<1>1. /\ ~up /\ up' /\ sessions' = <<>> /\ challenges' = <<>>
      /\ UNCHANGED <<stored, issued, tried>>
  BY DEF Restart
<1>2. Members(sessions)' = {} /\ Members(challenges)' = {}
  BY <1>1, EmptySeq DEF Members
<1>3. UNCHANGED Open
  BY <1>1, <1>2 DEF Open
<1>4. UNCHANGED [c \in Challenge |-> Stage(c)]
  BY <1>1, <1>2 DEF Stage
<1> QED  BY <1>1, <1>3, <1>4 DEF Recovery!rvars

LEMMA MoveRefines ==
    ASSUME AInv, AInv', AdminMove
    PROVE  [Recovery!Next]_(Recovery!rvars)
<1>1. CASE UNCHANGED adminVars \/ OpenDialog \/ NotConfirmed \/ ExpireSession
           \/ \E token : Logout(token)
  BY <1>1, SessionsRefine DEF adminVars, OpenDialog, NotConfirmed, ExpireSession, Logout
<1>2. CASE up /\ \E password \in Password, s \in Session : Login(password, s)
  BY <1>2, LoginRefines
<1>3. CASE up /\ \E c \in Challenge : Confirm(c)
  BY <1>3, IssueRefines
<1>4. CASE \E c \in Challenge, password \in Password : Attempt(c, password)
  BY <1>4, AttemptRefines
<1>5. CASE ExpireChallenge \/ Die \/ Restart
  BY <1>5, ExpireRefines, StopRefines, RestartRefines
<1> QED  BY <1>1, <1>2, <1>3, <1>4, <1>5 DEF AdminMove

(* However recoveries, logins, timeouts, deaths and restarts interleave, a *)
(* change of the password is one step that spends one confirmation and     *)
(* closes every session: the Supervisor implements PasswordRecovery.       *)
THEOREM RecoveryIsAtomic == Spec => RefinesPasswordRecovery
<1>1. Init => Recovery!Init
  <2> SUFFICES ASSUME Init PROVE Recovery!Init
    OBVIOUS
  <2>1. stored \in [password : Password, by : {"setup"}]
    BY DEF Init, AdminInit
  <2>2. Open = {}
    BY EmptySeq DEF Init, AdminInit, Open, Members
  <2>3. \A c \in Challenge : Stage(c) = "unissued"
    BY DEF Init, AdminInit, Stage
  <2> QED  BY <2>1, <2>2, <2>3 DEF Recovery!Init
<1>2. IInv /\ IInv' /\ [Next]_vars => [Recovery!Next]_(Recovery!rvars)
  BY NextMoves, MoveRefines DEF IInv
<1> QED
  BY <1>1, <1>2, Invariance, PTL DEF Spec, RefinesPasswordRecovery, Recovery!Spec
=============================================================================
