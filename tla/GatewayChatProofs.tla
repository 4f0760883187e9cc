-------------------------- MODULE GatewayChatProofs --------------------------
(***************************************************************************)
(* Proofs, for any requests, any length of an answer and any changes by    *)
(* the Supervisor, that a chat request is accounted for once and as it     *)
(* went, that nothing it opened stays open, and that every step of its     *)
(* handler brings its end nearer.                                          *)
(*                                                                         *)
(* Requests share only the event loop and the database, so the invariant   *)
(* is one about each request's own locals.                                 *)
(***************************************************************************)
EXTENDS GatewayChat, SequenceTheorems, TLAPS

(* Before the first byte of an answer, and while one is relayed.           *)
Loading == {"new", "verify", "body", "resolve", "refresh", "load"}
Early == Loading \cup {"post", "open", "open_close", "miss"}
Relaying == {"head", "pull", "push", "close"}

(* Only who was let in gets past the authentication.                       *)
LetIn(r) ==
    /\ ~req[r].granted => req[r].pc \in {"new", "verify", "done"} /\ req[r].usage = <<>>
    /\ req[r].pc \in {"new", "verify"} => ~req[r].granted

(* The usage is recorded by the step that closes or answers.               *)
Accounting(r) ==
    /\ req[r].pc \notin {"close_plane", "done"} => req[r].usage = <<>>
    /\ req[r].pc = "close_plane" => Len(req[r].usage) = 1
    /\ req[r].pc = "done" /\ req[r].granted
       /\ req[r].answer # "exception" /\ ~NeverIterated(r) => Len(req[r].usage) = 1
    /\ req[r].usage = <<>> \/ Len(req[r].usage) = 1

(* What is known of the answer at each place.                              *)
Answering(r) ==
    /\ req[r].pc \in Early => req[r].answer = "none" /\ req[r].sent = {}
    /\ req[r].pc = "post_close" =>
          /\ req[r].custom /\ req[r].answer \in {"ok", "none"}
          /\ req[r].answer = "none" => req[r].sent = {} /\ req[r].error \in ProviderFailure
    /\ req[r].pc = "open_close" => req[r].error \in ProviderFailure
    /\ req[r].pc \in Relaying \cup {"close_plane"} => req[r].answer = "sse"
    /\ req[r].pc = "miss" => ~req[r].custom
    /\ req[r].pc \in {"load", "open_close", "close_plane"} => req[r].custom

(* The stream's flags say what was sent, and why it is being closed.       *)
Noted(r) ==
    /\ req[r].tokens <=> "usage" \in req[r].sent
    /\ req[r].sawDone <=> "done" \in req[r].sent
    /\ req[r].pc = "close" => req[r].gone \/ req[r].ended \/ req[r].failed
    /\ req[r].answer = "ok" => "done" \notin req[r].sent

(* What is open, and where it will be closed.                              *)
Owning(r) ==
    /\ req[r].upstream = "open" =>
          req[r].pc \in Relaying \/ (req[r].pc = "done" /\ NeverIterated(r))
    /\ req[r].plane = "open" => req[r].custom /\ req[r].pc \notin Loading
    /\ req[r].plane = "open" /\ req[r].pc = "done" => req[r].answer \in {"sse", "exception"}

(* What was recorded is true of the request.                               *)
Told(r) == req[r].usage # <<>> => Truthful(r, req[r].usage[1])

Good(r) ==
    /\ LetIn(r) /\ Accounting(r) /\ Answering(r)
    /\ Noted(r) /\ Owning(r) /\ Told(r)

IInv == TypeOK /\ \A r \in Request : Good(r)

-----------------------------------------------------------------------------
(* A record appended to an empty account keeps the account's type.         *)
LEMMA RecordedType ==
    ASSUME NEW r \in Request, req[r].usage = <<>>,
           NEW status \in {"succeeded", "failed", "aborted"}, NEW tokens \in BOOLEAN,
           NEW category \in Category
    PROVE  Recorded(r, status, category, tokens) \in Seq(Usage)
  BY DEF Recorded, Usage

(* What is handed to the recorder, as a value.                             *)
LEMMA Recording ==
    ASSUME NEW r \in Request, req[r].usage = <<>>,
           NEW status \in {"succeeded", "failed", "aborted"}, NEW tokens \in BOOLEAN,
           NEW category \in Category
    PROVE  \E usage \in Seq(Usage) :
             /\ usage = Recorded(r, status, category, tokens) /\ Len(usage) = 1
             /\ usage[1].status = status /\ usage[1].category = category
             /\ usage[1].tokens <=> tokens
  <1>1. Recorded(r, status, category, tokens) \in Seq(Usage)
    BY RecordedType
  <1>2. /\ Len(Recorded(r, status, category, tokens)) = 1
        /\ Recorded(r, status, category, tokens)[1].status = status
        /\ Recorded(r, status, category, tokens)[1].category = category
        /\ Recorded(r, status, category, tokens)[1].tokens <=> tokens
    BY DEF Recorded
  <1> QED
    BY <1>1, <1>2

(* A step of one request that keeps its own invariant keeps them all.      *)
LEMMA OneStep ==
    ASSUME IInv, NEW r \in Request, req'[r] \in Locals,
           req' = [req EXCEPT ![r] = req'[r]], Good(r)',
           supervisor' \in BOOLEAN \X BOOLEAN \X BOOLEAN \X (0..MaxChanges)
    PROVE  IInv'
  <1>1. TypeOK'
    BY DEF IInv, TypeOK, supervisor
  <1>2. ASSUME NEW s \in Request \ {r} PROVE Good(s)'
    <2>1. req'[s] = req[s]
      BY DEF IInv, TypeOK
    <2>2. Good(s)
      BY DEF IInv
    <2> QED
      BY <2>1, <2>2 DEF Good, LetIn, Accounting, Answering, Noted, Owning, Told,
         Truthful, NeverIterated
  <1> QED
    BY <1>1, <1>2 DEF IInv

LEMMA InitIInv == Init => IInv
  <1> SUFFICES ASSUME Init PROVE IInv
    OBVIOUS
  <1>1. Fresh \in Locals
    BY BoundAssumption DEF Fresh, Locals, Location, Answer, Usage, UpstreamError
  <1>2. TypeOK
    BY <1>1, BoundAssumption DEF Init, TypeOK
  <1>3. ASSUME NEW r \in Request PROVE Good(r)
    <2>1. req[r] = Fresh
      BY DEF Init
    <2> QED
      BY <2>1 DEF Fresh, Good, LetIn, Accounting, Answering, Noted, Owning, Told,
         NeverIterated, Loading, Early, Relaying
  <1> QED
    BY <1>2, <1>3 DEF IInv

(* A failure is told and recorded as Truthful says.                        *)
Agree(r, error, category, code) ==
    \/ category = code /\ ~Unnamed(error)
    \/ /\ category = "rate_limit_exceeded" /\ Unnamed(error)
       /\ code = "provider_error" /\ ~req[r].custom

(* What a request that has an error to tell does.                          *)
LEMMA FailingOn ==
    ASSUME IInv, NEW r \in Request, NEW error \in UpstreamError,
           NEW category \in Category, NEW code \in ErrorCode,
           FailOn(r, error, category, code), Agree(r, error, category, code),
           req[r].pc \in {"body", "refresh", "load", "post", "open", "miss"},
           req[r].plane = "open" => FALSE
    PROVE  req' = [req EXCEPT ![r] = req'[r]] /\ req'[r] \in Locals /\ Good(r)'
  <1>1. req \in [Request -> Locals] /\ req[r] \in Locals /\ Good(r)
    BY DEF IInv, TypeOK
  <1>2. /\ req[r].granted /\ req[r].usage = <<>> /\ req[r].answer = "none"
        /\ req[r].sent = {} /\ req[r].upstream # "open"
    BY <1>1 DEF Good, LetIn, Accounting, Answering, Owning, Early, Loading, Relaying
  <1>3. PICK usage \in Seq(Usage) :
          /\ usage = Recorded(r, "failed", category, FALSE) /\ Len(usage) = 1
          /\ usage[1].status = "failed" /\ usage[1].category = category
          /\ ~usage[1].tokens
    <2>1. Recorded(r, "failed", category, FALSE) \in Seq(Usage)
      BY <1>2, RecordedType
    <2>2. /\ Len(Recorded(r, "failed", category, FALSE)) = 1
          /\ Recorded(r, "failed", category, FALSE)[1].status = "failed"
          /\ Recorded(r, "failed", category, FALSE)[1].category = category
          /\ ~Recorded(r, "failed", category, FALSE)[1].tokens
      BY <1>2 DEF Recorded
    <2> QED
      BY <2>1, <2>2
  <1>4. req'[r] = [req[r] EXCEPT !.pc = "done", !.error = error, !.answer = code,
                                 !.usage = usage]
    BY <1>1, <1>3 DEF FailOn, Locals
  <1>5. req'[r] \in Locals
    <2>1. "done" \in Location /\ code \in Answer
      BY DEF Location, Answer
    <2> QED
      BY <1>1, <1>3, <1>4, <2>1 DEF Locals
  <1>6. req' = [req EXCEPT ![r] = req'[r]]
    BY <1>1 DEF FailOn
  <1>7. Good(r)'
    <2>1. LetIn(r)'
      BY <1>1, <1>2, <1>4 DEF LetIn, Locals
    <2>2. /\ req'[r].usage = usage /\ req'[r].pc = "done" /\ req'[r].answer = code
          /\ req'[r].sent = {} /\ req'[r].error = error /\ req'[r].custom = req[r].custom
      BY <1>1, <1>2, <1>4 DEF Locals
    <2>3. Accounting(r)'
      BY <1>3, <2>2 DEF Accounting
    <2>4. Answering(r)'
      BY <1>1, <1>4 DEF Answering, Early, Loading, Relaying, Locals
    <2>5. Noted(r)'
      BY <1>1, <1>2, <1>4 DEF Good, Noted, ErrorCode, Locals
    <2>6. Owning(r)'
      BY <1>1, <1>2, <1>4 DEF Owning, Locals
    <2>7. Told(r)'
      <3>1. code # "ok"
        BY DEF ErrorCode
      <3>2. \/ usage[1].category = code /\ ~Unnamed(error)
            \/ /\ usage[1].category = "rate_limit_exceeded" /\ Unnamed(error)
               /\ code = "provider_error" /\ ~req[r].custom
        BY <1>3 DEF Agree
      <3> QED
        BY <1>3, <2>2, <3>1, <3>2 DEF Told, Truthful
    <2> QED
      BY <2>1, <2>3, <2>4, <2>5, <2>6, <2>7 DEF Good
  <1> QED
    BY <1>5, <1>6, <1>7

(* A failure that the handler names is told and recorded under that name.  *)
LEMMA Failing ==
    ASSUME IInv, NEW r \in Request, NEW code \in ErrorCode, Fail(r, code),
           req[r].pc \in {"body", "refresh", "load", "post", "open", "miss"},
           req[r].plane = "open" => FALSE
    PROVE  req' = [req EXCEPT ![r] = req'[r]] /\ req'[r] \in Locals /\ Good(r)'
  <1>1. NoError \in UpstreamError /\ ~Unnamed(NoError) /\ code \in Category
    BY DEF UpstreamError, Unnamed, NoError, Category
  <1> QED
    BY <1>1, FailingOn DEF Fail, Agree

(* A Sidecar failure is recorded and told under its code; without one, a   *)
(* rate limit is recorded as such and any other as the provider's error.   *)
LEMMA SidecarFailing ==
    ASSUME IInv, NEW r \in Request, NEW error \in SidecarFailure, SidecarFail(r, error),
           ~req[r].custom, req[r].pc \in {"post", "open"}
    PROVE  req' = [req EXCEPT ![r] = req'[r]] /\ req'[r] \in Locals /\ Good(r)'
  <1>1. error \in UpstreamError
    BY DEF UpstreamError
  <1>2. PICK category \in Category, code \in ErrorCode :
          /\ category = UsageErrorCategory(error) /\ code = SidecarErrorCode(error)
          /\ Agree(r, error, category, code)
    <2>1. error.code \in {"none", "quota_exhausted", "sidecar_unavailable"}
          /\ (error.code = "sidecar_unavailable" => error.status = 0)
      BY DEF SidecarFailure
    <2>2. CASE error.code = "none" /\ error.status = 429
      BY <2>2 DEF UsageErrorCategory, SidecarErrorCode, Category, ErrorCode, Agree, Unnamed
    <2>3. CASE error.code = "none" /\ error.status # 429
      BY <2>3 DEF UsageErrorCategory, SidecarErrorCode, Category, ErrorCode, Agree, Unnamed
    <2>4. CASE error.code # "none"
      BY <2>1, <2>4 DEF UsageErrorCategory, SidecarErrorCode, Category, ErrorCode, Agree,
         Unnamed
    <2> QED
      BY <2>2, <2>3, <2>4
  <1>3. req[r].plane = "open" => FALSE
    BY DEF IInv, Good, Owning
  <1> QED
    BY <1>1, <1>2, <1>3, FailingOn DEF SidecarFail

(* A custom provider's failure, once its client is closed.                 *)
LEMMA ProviderFailing ==
    ASSUME IInv, NEW r \in Request, ProviderFail(r, req[r].error),
           req[r].pc \in {"post_close", "open_close"}, req[r].answer = "none"
    PROVE  req' = [req EXCEPT ![r] = req'[r]] /\ req'[r] \in Locals /\ Good(r)'
  <1>1. req \in [Request -> Locals] /\ req[r] \in Locals /\ Good(r)
    BY DEF IInv, TypeOK
  <1>2. /\ req[r].granted /\ req[r].usage = <<>> /\ req[r].sent = {}
        /\ req[r].upstream # "open" /\ req[r].custom /\ req[r].error \in ProviderFailure
    BY <1>1 DEF Good, LetIn, Accounting, Answering, Owning, Early, Loading, Relaying
  <1>3. PICK code \in ErrorCode :
          code = req[r].error.code /\ code \in Category /\ ~Unnamed(req[r].error)
    BY <1>2 DEF ProviderFailure, ErrorCode, Category, Unnamed
  <1>4. PICK usage \in Seq(Usage) :
          /\ usage = Recorded(r, "failed", code, FALSE) /\ Len(usage) = 1
          /\ usage[1].status = "failed" /\ usage[1].category = code
          /\ ~usage[1].tokens
    <2>1. Recorded(r, "failed", code, FALSE) \in Seq(Usage)
      BY <1>2, <1>3, RecordedType
    <2>2. /\ Len(Recorded(r, "failed", code, FALSE)) = 1
          /\ Recorded(r, "failed", code, FALSE)[1].status = "failed"
          /\ Recorded(r, "failed", code, FALSE)[1].category = code
          /\ ~Recorded(r, "failed", code, FALSE)[1].tokens
      BY <1>2 DEF Recorded
    <2> QED
      BY <2>1, <2>2
  <1>5. /\ req' = [req EXCEPT ![r] = req'[r]]
        /\ req'[r] = [req[r] EXCEPT !.pc = "done", !.plane = "closed", !.answer = code,
                                    !.usage = usage]
    BY <1>1, <1>3, <1>4 DEF ProviderFail, Locals
  <1>6. req'[r] \in Locals
    <2>1. "done" \in Location /\ code \in Answer
      BY DEF Location, Answer
    <2> QED
      BY <1>1, <1>4, <1>5, <2>1 DEF Locals
  <1>7. /\ req'[r].usage = usage /\ req'[r].pc = "done" /\ req'[r].answer = code
        /\ req'[r].sent = {} /\ req'[r].error = req[r].error /\ code # "ok"
    BY <1>1, <1>2, <1>5 DEF Locals, ErrorCode
  <1>8. LetIn(r)'
    BY <1>1, <1>2, <1>5 DEF LetIn, Locals
  <1>9. Accounting(r)'
    BY <1>4, <1>7 DEF Accounting
  <1>10. Answering(r)'
    BY <1>1, <1>5 DEF Answering, Early, Loading, Relaying, Locals
  <1>11. Noted(r)'
    BY <1>1, <1>2, <1>5 DEF Good, Noted, ErrorCode, Locals
  <1>12. Owning(r)'
    BY <1>1, <1>2, <1>5 DEF Owning, Locals
  <1>13. Told(r)'
    BY <1>3, <1>4, <1>7 DEF Told, Truthful
  <1> QED
    BY <1>5, <1>6, <1>8, <1>9, <1>10, <1>11, <1>12, <1>13 DEF Good

(* A request that goes on changes nothing but its place.                   *)
LEMMA Moving ==
    ASSUME IInv, NEW r \in Request, NEW pc \in Location, Goto(r, pc)
    PROVE  /\ req' = [req EXCEPT ![r] = req'[r]] /\ req'[r] \in Locals
           /\ req'[r] = [req[r] EXCEPT !.pc = pc]
  <1>1. req \in [Request -> Locals] /\ req[r] \in Locals
    BY DEF IInv, TypeOK
  <1>2. /\ req' = [req EXCEPT ![r] = req'[r]]
        /\ req'[r] = [req[r] EXCEPT !.pc = pc]
    BY <1>1 DEF Goto, Locals
  <1>3. req'[r] \in Locals
    BY <1>1, <1>2 DEF Locals
  <1> QED
    BY <1>2, <1>3


(* An unauthenticated request is answered without being accounted for.     *)
LEMMA Refusing ==
    ASSUME IInv, NEW r \in Request, Reply(r, "unauthorized", <<>>),
           req[r].pc \in {"new", "verify"}
    PROVE  req' = [req EXCEPT ![r] = req'[r]] /\ req'[r] \in Locals /\ Good(r)'
  <1>1. req \in [Request -> Locals] /\ req[r] \in Locals /\ Good(r)
    BY DEF IInv, TypeOK
  <1>2. /\ req' = [req EXCEPT ![r] = req'[r]]
        /\ req'[r] = [req[r] EXCEPT !.pc = "done", !.answer = "unauthorized", !.usage = <<>>]
    BY <1>1 DEF Reply, Locals
  <1>3. req'[r] \in Locals
    <2>1. "done" \in Location /\ "unauthorized" \in Answer /\ <<>> \in Seq(Usage)
      BY DEF Location, Answer
    <2> QED
      BY <1>1, <1>2, <2>1 DEF Locals
  <1>4. LetIn(r)'
    BY <1>1, <1>2 DEF Good, LetIn, Locals
  <1>5. Accounting(r)'
    BY <1>1, <1>2 DEF Good, LetIn, Accounting, NeverIterated, Locals
  <1>6. Answering(r)'
    BY <1>1, <1>2 DEF Good, Answering, Early, Loading, Relaying, Locals
  <1>7. Noted(r)'
    BY <1>1, <1>2 DEF Good, Answering, Noted, Early, Loading, Relaying, ErrorCode, Locals
  <1>8. Owning(r)'
    BY <1>1, <1>2 DEF Good, Answering, Owning, NeverIterated, Early, Loading, Relaying,
       ErrorCode, Locals
  <1>9. Told(r)'
    BY <1>1, <1>2 DEF Told, Locals
  <1> QED
    BY <1>2, <1>3, <1>4, <1>5, <1>6, <1>7, <1>8, <1>9 DEF Good

LEMMA AuthReadStep == ASSUME IInv, NEW r \in Request, AuthRead(r) PROVE IInv'
  <1>1. req \in [Request -> Locals] /\ req[r] \in Locals /\ Good(r)
    BY DEF IInv, TypeOK
  <1>2. supervisor' \in BOOLEAN \X BOOLEAN \X BOOLEAN \X (0..MaxChanges)
    BY DEF IInv, TypeOK, AuthRead, supervisor
  <1>3. CASE active /\ Goto(r, "verify")
    <2>1. req'[r] = [req[r] EXCEPT !.pc = "verify"] /\ req'[r] \in Locals
          /\ req' = [req EXCEPT ![r] = req'[r]]
      BY <1>3, Moving DEF Location
    <2>2. Good(r)'
      BY <1>1, <2>1 DEF AuthRead, At, Locals, Good, LetIn, Accounting, Answering, Noted,
         Owning, Told, Truthful, NeverIterated, Early, Loading, Relaying
    <2> QED
      BY <1>2, <2>1, <2>2, OneStep
  <1>4. CASE Reply(r, "unauthorized", <<>>)
    BY <1>1, <1>2, <1>4, Refusing, OneStep DEF AuthRead, At
  <1> QED
    BY <1>3, <1>4 DEF AuthRead

LEMMA AuthUpdateStep == ASSUME IInv, NEW r \in Request, AuthUpdate(r) PROVE IInv'
  <1>1. req \in [Request -> Locals] /\ req[r] \in Locals /\ Good(r)
    BY DEF IInv, TypeOK
  <1>2. supervisor' \in BOOLEAN \X BOOLEAN \X BOOLEAN \X (0..MaxChanges)
    BY DEF IInv, TypeOK, AuthUpdate, supervisor
  <1>3. ASSUME req' = [req EXCEPT ![r].pc = "body", ![r].granted = TRUE] PROVE IInv'
    <2>1. req'[r] = [req[r] EXCEPT !.pc = "body", !.granted = TRUE]
      BY <1>1, <1>3 DEF Locals
    <2>2. req'[r] \in Locals
      BY <1>1, <2>1 DEF Locals, Location
    <2>3. Good(r)'
      BY <1>1, <2>1 DEF AuthUpdate, At, Locals, Good, LetIn, Accounting, Answering, Noted,
         Owning, Told, Truthful, NeverIterated, Early, Loading, Relaying
    <2> QED
      BY <1>1, <1>2, <1>3, <2>2, <2>3, OneStep
  <1>4. CASE Reply(r, "unauthorized", <<>>)
    BY <1>1, <1>2, <1>4, Refusing, OneStep DEF AuthUpdate, At
  <1> QED
    BY <1>3, <1>4 DEF AuthUpdate

LEMMA BodyStep == ASSUME IInv, NEW r \in Request, Body(r) PROVE IInv'
  <1>1. req \in [Request -> Locals] /\ req[r] \in Locals /\ Good(r)
    BY DEF IInv, TypeOK
  <1>2. supervisor' \in BOOLEAN \X BOOLEAN \X BOOLEAN \X (0..MaxChanges)
    BY DEF IInv, TypeOK, Body, supervisor
  <1>3. CASE Fail(r, "invalid_request")
    BY <1>1, <1>2, <1>3, Failing, OneStep DEF Body, At, ErrorCode, Good, Owning, Loading
  <1>4. ASSUME NEW stream \in BOOLEAN, NEW custom \in BOOLEAN,
               req' = [req EXCEPT ![r].pc = "resolve", ![r].stream = stream, ![r].custom = custom]
        PROVE  IInv'
    <2>1. req'[r] = [req[r] EXCEPT !.pc = "resolve", !.stream = stream, !.custom = custom]
      BY <1>1, <1>4 DEF Locals
    <2>2. req'[r] \in Locals
      BY <1>1, <2>1 DEF Locals, Location
    <2>3. LetIn(r)'
      BY <1>1, <2>1 DEF Body, At, Good, LetIn, Locals
    <2>4. Accounting(r)'
      BY <1>1, <2>1 DEF Body, At, Good, Accounting, Locals
    <2>5. Answering(r)'
      BY <1>1, <2>1 DEF Body, At, Good, Answering, Early, Loading, Relaying, Locals
    <2>6. Noted(r)'
      BY <1>1, <2>1 DEF Good, Noted, ErrorCode, Locals
    <2>7. Owning(r)'
      BY <1>1, <2>1 DEF Body, At, Good, Owning, Loading, Relaying, Locals
    <2>8. req'[r].usage = <<>>
      BY <1>1, <2>1 DEF Body, At, Good, Accounting, Locals
    <2>9. Told(r)'
      BY <2>8 DEF Told
    <2> QED
      BY <1>1, <1>2, <1>4, <2>2, <2>3, <2>4, <2>5, <2>6, <2>7, <2>9, OneStep DEF Good
  <1> QED
    BY <1>3, <1>4 DEF Body

LEMMA BodyLostStep == ASSUME IInv, NEW r \in Request, BodyLost(r) PROVE IInv'
  <1>1. req \in [Request -> Locals] /\ req[r] \in Locals /\ Good(r)
    BY DEF IInv, TypeOK
  <1>2. supervisor' \in BOOLEAN \X BOOLEAN \X BOOLEAN \X (0..MaxChanges)
    BY DEF IInv, TypeOK, BodyLost, supervisor
  <1>3. /\ req' = [req EXCEPT ![r] = req'[r]]
        /\ req'[r] = [req[r] EXCEPT !.pc = "done", !.answer = "exception", !.usage = <<>>]
    BY <1>1 DEF BodyLost, Reply, Locals
  <1>4. req'[r] \in Locals
    <2>1. "done" \in Location /\ "exception" \in Answer /\ <<>> \in Seq(Usage)
      BY DEF Location, Answer
    <2> QED
      BY <1>1, <1>3, <2>1 DEF Locals
  <1>5. Good(r)'
    BY <1>1, <1>3 DEF BodyLost, At, Locals, Good, LetIn, Accounting, Answering, Noted,
       Owning, Told, Truthful, NeverIterated, Early, Loading, Relaying
  <1> QED
    BY <1>2, <1>3, <1>4, <1>5, OneStep

LEMMA ResolveStep == ASSUME IInv, NEW r \in Request, Resolve(r) PROVE IInv'
  <1>1. req \in [Request -> Locals] /\ req[r] \in Locals /\ Good(r)
    BY DEF IInv, TypeOK
  <1>2. supervisor' \in BOOLEAN \X BOOLEAN \X BOOLEAN \X (0..MaxChanges)
    BY DEF IInv, TypeOK, Resolve, supervisor
  <1>3. PICK pc \in {"refresh", "load", "open", "post"} :
          Goto(r, pc) /\ (pc = "load" => req[r].custom)
    BY DEF Resolve, Resolved
  <1>4. /\ req' = [req EXCEPT ![r] = req'[r]] /\ req'[r] \in Locals
        /\ req'[r] = [req[r] EXCEPT !.pc = pc]
    BY <1>3, Moving DEF Location
  <1>5. LetIn(r)'
    BY <1>1, <1>3, <1>4 DEF Resolve, At, Good, LetIn, Locals
  <1>6. Accounting(r)'
    BY <1>1, <1>3, <1>4 DEF Resolve, At, Good, Accounting, Locals
  <1>7. Answering(r)'
    BY <1>1, <1>3, <1>4 DEF Resolve, At, Good, Answering, Early, Loading, Relaying, Locals
  <1>8. Noted(r)'
    BY <1>1, <1>3, <1>4 DEF Resolve, At, Good, Noted, Locals
  <1>9. Owning(r)'
    BY <1>1, <1>3, <1>4 DEF Resolve, At, Good, Owning, Early, Loading, Relaying, Locals
  <1>10. Told(r)'
    BY <1>1, <1>3, <1>4 DEF Resolve, At, Good, Accounting, Told, Locals
  <1> QED
    BY <1>2, <1>4, <1>5, <1>6, <1>7, <1>8, <1>9, <1>10, OneStep DEF Good

LEMMA RefreshStep == ASSUME IInv, NEW r \in Request, Refresh(r) PROVE IInv'
  <1>1. req \in [Request -> Locals] /\ req[r] \in Locals /\ Good(r)
    BY DEF IInv, TypeOK
  <1>2. supervisor' \in BOOLEAN \X BOOLEAN \X BOOLEAN \X (0..MaxChanges)
    BY DEF IInv, TypeOK, Refresh, supervisor
  <1>3. ASSUME Goto(r, Resolved(r)) PROVE IInv'
    <2>1. PICK pc \in {"load", "open", "post"} :
            Goto(r, pc) /\ (pc = "load" => req[r].custom)
      BY <1>3 DEF Resolved
    <2>2. /\ req' = [req EXCEPT ![r] = req'[r]] /\ req'[r] \in Locals
          /\ req'[r] = [req[r] EXCEPT !.pc = pc]
      BY <2>1, Moving DEF Location
    <2>3. LetIn(r)'
      BY <1>1, <2>1, <2>2 DEF Refresh, At, Good, LetIn, Locals
    <2>4. Accounting(r)'
      BY <1>1, <2>1, <2>2 DEF Refresh, At, Good, Accounting, Locals
    <2>5. Answering(r)'
      BY <1>1, <2>1, <2>2 DEF Refresh, At, Good, Answering, Early, Loading, Relaying, Locals
    <2>6. Noted(r)'
      BY <1>1, <2>1, <2>2 DEF Refresh, At, Good, Noted, Locals
    <2>7. Owning(r)'
      BY <1>1, <2>1, <2>2 DEF Refresh, At, Good, Owning, Early, Loading, Relaying, Locals
    <2>8. Told(r)'
      BY <1>1, <2>1, <2>2 DEF Refresh, At, Good, Accounting, Told, Locals
    <2> QED
      BY <1>2, <2>2, <2>3, <2>4, <2>5, <2>6, <2>7, <2>8, OneStep DEF Good
  <1>4. CASE Fail(r, "model_not_found")
    BY <1>1, <1>2, <1>4, Failing, OneStep DEF Refresh, At, ErrorCode, Good, Owning, Loading
  <1> QED
    BY <1>3, <1>4 DEF Refresh

LEMMA LoadStep == ASSUME IInv, NEW r \in Request, Load(r) PROVE IInv'
  <1>1. req \in [Request -> Locals] /\ req[r] \in Locals /\ Good(r)
    BY DEF IInv, TypeOK
  <1>2. supervisor' \in BOOLEAN \X BOOLEAN \X BOOLEAN \X (0..MaxChanges)
    BY DEF IInv, TypeOK, Load, supervisor
  <1>3. ASSUME NEW pc \in {"open", "post"},
               req' = [req EXCEPT ![r].plane = "open", ![r].pc = pc]
        PROVE  IInv'
    <2>1. req'[r] = [req[r] EXCEPT !.plane = "open", !.pc = pc]
      BY <1>1, <1>3 DEF Locals
    <2>2. req'[r] \in Locals
      BY <1>1, <2>1 DEF Locals, Location
    <2>3. Good(r)'
      BY <1>1, <2>1 DEF Load, At, Locals, Good, LetIn, Accounting, Answering, Noted,
       Owning, Told, Truthful, NeverIterated, Early, Loading, Relaying
    <2> QED
      BY <1>1, <1>2, <1>3, <2>2, <2>3, OneStep
  <1>4. CASE Fail(r, "provider_unavailable")
    BY <1>1, <1>2, <1>4, Failing, OneStep DEF Load, At, ErrorCode, Good, Owning, Loading
  <1> QED
    BY <1>3, <1>4 DEF Load

LEMMA MissStep == ASSUME IInv, NEW r \in Request, Miss(r) PROVE IInv'
  <1>1. req \in [Request -> Locals] /\ req[r] \in Locals /\ Good(r)
    BY DEF IInv, TypeOK
  <1>2. supervisor' \in BOOLEAN \X BOOLEAN \X BOOLEAN \X (0..MaxChanges)
    BY DEF IInv, TypeOK, Miss, supervisor
  <1>3. Fail(r, "model_not_found") /\ (req[r].plane = "open" => FALSE)
    BY <1>1 DEF Miss, At, Good, Answering, Owning
  <1> QED
    BY <1>2, <1>3, Failing, OneStep DEF Miss, At, ErrorCode

(* A data plane that raised: a custom provider's client is closed next.    *)
LEMMA RaisedStep ==
    ASSUME IInv, NEW r \in Request, NEW closing \in {"post_close", "open_close"},
           Raised(r, closing), req[r].pc \in {"post", "open"}
    PROVE  req' = [req EXCEPT ![r] = req'[r]] /\ req'[r] \in Locals /\ Good(r)'
  <1>1. req \in [Request -> Locals] /\ req[r] \in Locals /\ Good(r)
    BY DEF IInv, TypeOK
  <1>2. ASSUME NEW error \in SidecarFailure, ~req[r].custom, SidecarFail(r, error)
        PROVE  req' = [req EXCEPT ![r] = req'[r]] /\ req'[r] \in Locals /\ Good(r)'
    BY <1>2, SidecarFailing
  <1>3. ASSUME ~req[r].custom, Goto(r, "miss")
        PROVE  req' = [req EXCEPT ![r] = req'[r]] /\ req'[r] \in Locals /\ Good(r)'
    <2>1. /\ req' = [req EXCEPT ![r] = req'[r]] /\ req'[r] \in Locals
          /\ req'[r] = [req[r] EXCEPT !.pc = "miss"]
      BY <1>3, Moving DEF Location
    <2>2. Good(r)'
      BY <1>1, <1>3, <2>1 DEF Locals, Good, LetIn, Accounting, Answering, Noted,
       Owning, Told, Truthful, NeverIterated, Early, Loading, Relaying
    <2> QED
      BY <2>1, <2>2
  <1>4. ASSUME NEW error \in ProviderFailure, req[r].custom,
               req' = [req EXCEPT ![r].pc = closing, ![r].error = error]
        PROVE  req' = [req EXCEPT ![r] = req'[r]] /\ req'[r] \in Locals /\ Good(r)'
    <2>1. req'[r] = [req[r] EXCEPT !.pc = closing, !.error = error]
      BY <1>1, <1>4 DEF Locals
    <2>2. req'[r] \in Locals
      <3>1. closing \in Location /\ error \in UpstreamError
        BY <1>4 DEF Location, UpstreamError
      <3> QED
        BY <1>1, <2>1, <3>1 DEF Locals
    <2>3. LetIn(r)' /\ Accounting(r)' /\ Noted(r)' /\ Owning(r)'
      BY <1>1, <1>4, <2>1 DEF Locals, Good, LetIn, Accounting, Answering, Noted,
       Owning, NeverIterated, Early, Loading, Relaying
    <2>4. Answering(r)'
      BY <1>1, <1>4, <2>1 DEF Locals, Good, Answering, Early, Loading, Relaying
    <2>5. Told(r)'
      BY <1>1, <2>1 DEF Locals, Good, Accounting, Told
    <2> QED
      BY <1>1, <1>4, <2>2, <2>3, <2>4, <2>5 DEF Good
  <1> QED
    BY <1>2, <1>3, <1>4 DEF Raised, Failures

LEMMA PostErrorStep == ASSUME IInv, NEW r \in Request, PostError(r) PROVE IInv'
  <1>1. supervisor' \in BOOLEAN \X BOOLEAN \X BOOLEAN \X (0..MaxChanges)
    BY DEF IInv, TypeOK, PostError, supervisor
  <1> QED
    BY <1>1, RaisedStep, OneStep DEF PostError, At

LEMMA OpenErrorStep == ASSUME IInv, NEW r \in Request, OpenError(r) PROVE IInv'
  <1>1. supervisor' \in BOOLEAN \X BOOLEAN \X BOOLEAN \X (0..MaxChanges)
    BY DEF IInv, TypeOK, OpenError, supervisor
  <1> QED
    BY <1>1, RaisedStep, OneStep DEF OpenError, At

LEMMA OpenStep == ASSUME IInv, NEW r \in Request, Open(r) PROVE IInv'
  <1>1. req \in [Request -> Locals] /\ req[r] \in Locals /\ Good(r)
    BY DEF IInv, TypeOK
  <1>2. supervisor' \in BOOLEAN \X BOOLEAN \X BOOLEAN \X (0..MaxChanges)
    BY DEF IInv, TypeOK, Open, supervisor
  <1>3. /\ req' = [req EXCEPT ![r] = req'[r]]
        /\ req'[r] = [req[r] EXCEPT !.pc = "head", !.upstream = "open", !.answer = "sse"]
    BY <1>1 DEF Open, Reply, Locals
  <1>4. req'[r] \in Locals
    BY <1>1, <1>3 DEF Locals, Location, Answer
  <1>5. Good(r)'
    BY <1>1, <1>3 DEF Open, At, Locals, Good, LetIn, Accounting, Answering, Noted,
       Owning, Told, Truthful, NeverIterated, Early, Loading, Relaying
  <1> QED
    BY <1>2, <1>3, <1>4, <1>5, OneStep

LEMMA OpenBreaksStep == ASSUME IInv, NEW r \in Request, OpenBreaks(r) PROVE IInv'
  <1>1. req \in [Request -> Locals] /\ req[r] \in Locals /\ Good(r)
    BY DEF IInv, TypeOK
  <1>2. supervisor' \in BOOLEAN \X BOOLEAN \X BOOLEAN \X (0..MaxChanges)
    BY DEF IInv, TypeOK, OpenBreaks, supervisor
  <1>3. /\ req' = [req EXCEPT ![r] = req'[r]]
        /\ req'[r] = [req[r] EXCEPT !.pc = "done", !.upstream = "closed",
                                    !.answer = "exception"]
    BY <1>1 DEF OpenBreaks, Reply, Locals
  <1>4. req'[r] \in Locals
    BY <1>1, <1>3 DEF Locals, Location, Answer
  <1>5. Good(r)'
    BY <1>1, <1>3 DEF OpenBreaks, At, Locals, Good, LetIn, Accounting, Answering, Noted,
       Owning, Told, Truthful, NeverIterated, Early, Loading, Relaying
  <1> QED
    BY <1>2, <1>3, <1>4, <1>5, OneStep

LEMMA SendHeadStep == ASSUME IInv, NEW r \in Request, SendHead(r) PROVE IInv'
  <1>1. req \in [Request -> Locals] /\ req[r] \in Locals /\ Good(r)
    BY DEF IInv, TypeOK
  <1>2. supervisor' \in BOOLEAN \X BOOLEAN \X BOOLEAN \X (0..MaxChanges)
    BY DEF IInv, TypeOK, SendHead, supervisor
  <1>3. /\ req' = [req EXCEPT ![r] = req'[r]] /\ req'[r] \in Locals
        /\ req'[r] = [req[r] EXCEPT !.pc = "pull"]
    BY Moving DEF SendHead, Location
  <1>4. Good(r)'
    BY <1>1, <1>3 DEF SendHead, At, Locals, Good, LetIn, Accounting, Answering, Noted,
       Owning, Told, Truthful, NeverIterated, Early, Loading, Relaying
  <1> QED
    BY <1>2, <1>3, <1>4, OneStep

LEMMA PushStep == ASSUME IInv, NEW r \in Request, Push(r) PROVE IInv'
  <1>1. req \in [Request -> Locals] /\ req[r] \in Locals /\ Good(r)
    BY DEF IInv, TypeOK
  <1>2. supervisor' \in BOOLEAN \X BOOLEAN \X BOOLEAN \X (0..MaxChanges)
    BY DEF IInv, TypeOK, Push, supervisor
  <1>3. /\ req' = [req EXCEPT ![r] = req'[r]] /\ req'[r] \in Locals
        /\ req'[r] = [req[r] EXCEPT !.pc = "pull"]
    BY Moving DEF Push, Location
  <1>4. Good(r)'
    BY <1>1, <1>3 DEF Push, At, Locals, Good, LetIn, Accounting, Answering, Noted,
       Owning, Told, Truthful, NeverIterated, Early, Loading, Relaying
  <1> QED
    BY <1>2, <1>3, <1>4, OneStep

LEMMA ClosePlaneStep == ASSUME IInv, NEW r \in Request, ClosePlane(r) PROVE IInv'
  <1>1. req \in [Request -> Locals] /\ req[r] \in Locals /\ Good(r)
    BY DEF IInv, TypeOK
  <1>2. supervisor' \in BOOLEAN \X BOOLEAN \X BOOLEAN \X (0..MaxChanges)
    BY DEF IInv, TypeOK, ClosePlane, supervisor
  <1>3. /\ req' = [req EXCEPT ![r] = req'[r]]
        /\ req'[r] = [req[r] EXCEPT !.plane = "closed", !.pc = "done"]
    BY <1>1 DEF ClosePlane, Reply, Locals
  <1>4. req'[r] \in Locals
    BY <1>1, <1>3 DEF Locals, Location
  <1>5. Good(r)'
    BY <1>1, <1>3 DEF ClosePlane, At, Locals, Good, LetIn, Accounting, Answering, Noted,
       Owning, Told, Truthful, NeverIterated, Early, Loading, Relaying
  <1> QED
    BY <1>2, <1>3, <1>4, <1>5, OneStep

LEMMA ClientLeavesStep == ASSUME IInv, NEW r \in Request, ClientLeaves(r) PROVE IInv'
  <1>1. req \in [Request -> Locals] /\ req[r] \in Locals /\ Good(r)
    BY DEF IInv, TypeOK
  <1>2. supervisor' \in BOOLEAN \X BOOLEAN \X BOOLEAN \X (0..MaxChanges)
    BY DEF IInv, TypeOK, ClientLeaves, supervisor
  <1>3. /\ req' = [req EXCEPT ![r] = req'[r]]
        /\ req'[r] = [req[r] EXCEPT !.gone = TRUE]
    BY <1>1 DEF ClientLeaves, Reply, Locals
  <1>4. req'[r] \in Locals
    BY <1>1, <1>3 DEF Locals, Location
  <1>5. Good(r)'
    BY <1>1, <1>3 DEF ClientLeaves, At, Locals, Good, LetIn, Accounting, Answering, Noted,
       Owning, Told, Truthful, NeverIterated, Early, Loading, Relaying
  <1> QED
    BY <1>2, <1>3, <1>4, <1>5, OneStep

LEMMA PullLineStep == ASSUME IInv, NEW r \in Request, PullLine(r) PROVE IInv'
  <1>1. req \in [Request -> Locals] /\ req[r] \in Locals /\ Good(r)
    BY DEF IInv, TypeOK
  <1>2. supervisor' \in BOOLEAN \X BOOLEAN \X BOOLEAN \X (0..MaxChanges)
    BY DEF IInv, TypeOK, PullLine, supervisor
  <1>3. PICK event \in Event :
          req' = [req EXCEPT ![r].pc = "push", ![r].started = TRUE, ![r].lines = @ + 1,
                             ![r].sent = @ \cup {event},
                             ![r].tokens = @ \/ event = "usage",
                             ![r].sawDone = @ \/ event = "done"]
    BY DEF PullLine
  <1>4. /\ req' = [req EXCEPT ![r] = req'[r]]
        /\ req'[r] = [req[r] EXCEPT !.pc = "push", !.started = TRUE, !.lines = @ + 1,
                                    !.sent = @ \cup {event},
                                    !.tokens = @ \/ event = "usage",
                                    !.sawDone = @ \/ event = "done"]
    BY <1>1, <1>3 DEF Locals
  <1>5. req'[r] \in Locals
    BY <1>1, <1>4, BoundAssumption DEF PullLine, Locals, Location
  <1>6. LetIn(r)'
    BY <1>1, <1>4 DEF PullLine, At, Good, LetIn, Locals
  <1>7. Accounting(r)'
    BY <1>1, <1>4 DEF PullLine, At, Good, Accounting, Answering, LetIn, NeverIterated,
       Relaying, Locals
  <1>8. Answering(r)'
    BY <1>1, <1>4 DEF PullLine, At, Good, Answering, Early, Loading, Relaying, Locals
  <1>9. Noted(r)'
    BY <1>1, <1>4 DEF PullLine, At, Good, Noted, Answering, Early, Loading, Relaying,
       ErrorCode, Locals
  <1>10. Owning(r)'
    BY <1>1, <1>4 DEF PullLine, At, Good, Owning, Answering, NeverIterated, Early,
       Loading, Relaying, ErrorCode, Locals
  <1>11. Told(r)'
    BY <1>1, <1>4 DEF PullLine, At, Good, Accounting, Answering, Noted, Told, Truthful,
       Early, Loading, Relaying, ErrorCode, Locals
  <1> QED
    BY <1>2, <1>4, <1>5, <1>6, <1>7, <1>8, <1>9, <1>10, <1>11, OneStep DEF Good

LEMMA PullEndStep == ASSUME IInv, NEW r \in Request, PullEnd(r) PROVE IInv'
  <1>1. req \in [Request -> Locals] /\ req[r] \in Locals /\ Good(r)
    BY DEF IInv, TypeOK
  <1>2. supervisor' \in BOOLEAN \X BOOLEAN \X BOOLEAN \X (0..MaxChanges)
    BY DEF IInv, TypeOK, PullEnd, supervisor
  <1>3. PICK broken \in BOOLEAN :
          req' = [req EXCEPT ![r].pc = "close", ![r].started = TRUE, ![r].pulling = TRUE,
                             ![r].ended = ~broken, ![r].failed = broken]
    BY DEF PullEnd
  <1>4. /\ req' = [req EXCEPT ![r] = req'[r]]
        /\ req'[r] = [req[r] EXCEPT !.pc = "close", !.started = TRUE, !.pulling = TRUE,
                                    !.ended = ~broken, !.failed = broken]
    BY <1>1, <1>3 DEF Locals
  <1>5. req'[r] \in Locals
    BY <1>1, <1>4 DEF Locals, Location
  <1>6. LetIn(r)'
    BY <1>1, <1>4 DEF PullEnd, At, Good, LetIn, Locals
  <1>7. Accounting(r)'
    BY <1>1, <1>4 DEF PullEnd, At, Good, Accounting, Answering, LetIn, NeverIterated,
       Relaying, Locals
  <1>8. Answering(r)'
    BY <1>1, <1>4 DEF PullEnd, At, Good, Answering, Early, Loading, Relaying, Locals
  <1>9. Noted(r)'
    BY <1>1, <1>4 DEF PullEnd, At, Good, Noted, Answering, Early, Loading, Relaying,
       ErrorCode, Locals
  <1>10. Owning(r)'
    BY <1>1, <1>4 DEF PullEnd, At, Good, Owning, Answering, NeverIterated, Early,
       Loading, Relaying, ErrorCode, Locals
  <1>11. Told(r)'
    BY <1>1, <1>4 DEF PullEnd, At, Good, Accounting, Answering, Noted, Told, Truthful,
       Early, Loading, Relaying, ErrorCode, Locals
  <1> QED
    BY <1>2, <1>4, <1>5, <1>6, <1>7, <1>8, <1>9, <1>10, <1>11, OneStep DEF Good

LEMMA CancelledStep == ASSUME IInv, NEW r \in Request, Cancelled(r) PROVE IInv'
  <1>1. req \in [Request -> Locals] /\ req[r] \in Locals /\ Good(r)
    BY DEF IInv, TypeOK
  <1>2. supervisor' \in BOOLEAN \X BOOLEAN \X BOOLEAN \X (0..MaxChanges)
    BY DEF IInv, TypeOK, Cancelled, supervisor
  <1>3. ASSUME req[r].pc = "pull",
               req' = [req EXCEPT ![r].pc = "close", ![r].started = TRUE, ![r].pulling = TRUE]
        PROVE  IInv'
    <2>1. /\ req' = [req EXCEPT ![r] = req'[r]]
          /\ req'[r] = [req[r] EXCEPT !.pc = "close", !.started = TRUE, !.pulling = TRUE]
      BY <1>1, <1>3 DEF Locals
    <2>2. req'[r] \in Locals
      BY <1>1, <2>1 DEF Locals, Location
    <2>3. LetIn(r)'
      BY <1>1, <1>3, <2>1 DEF Cancelled, At, Good, LetIn, Locals
    <2>4. Accounting(r)'
      BY <1>1, <1>3, <2>1 DEF Cancelled, At, Good, Accounting, Answering, LetIn,
         NeverIterated, Relaying, Locals
    <2>5. Answering(r)'
      BY <1>1, <1>3, <2>1 DEF Cancelled, At, Good, Answering, Early, Loading, Relaying,
         Locals
    <2>6. Noted(r)'
      BY <1>1, <1>3, <2>1 DEF Cancelled, At, Good, Noted, Answering, Early, Loading,
         Relaying, ErrorCode, Locals
    <2>7. Owning(r)'
      BY <1>1, <1>3, <2>1 DEF Cancelled, At, Good, Owning, Answering, NeverIterated,
         Early, Loading, Relaying, ErrorCode, Locals
    <2>8. Told(r)'
      BY <1>1, <1>3, <2>1 DEF Cancelled, At, Good, Accounting, Answering, Noted, Told,
         Truthful, Early, Loading, Relaying, ErrorCode, Locals
    <2> QED
      BY <1>2, <2>1, <2>2, <2>3, <2>4, <2>5, <2>6, <2>7, <2>8, OneStep DEF Good
  <1>4. ASSUME req[r].pc \in {"head", "push"},
               NEW pc \in {"close", "done"}, Goto(r, pc),
               pc = "done" => req[r].custom /\ ~req[r].started
        PROVE  IInv'
    <2>1. /\ req' = [req EXCEPT ![r] = req'[r]] /\ req'[r] \in Locals
          /\ req'[r] = [req[r] EXCEPT !.pc = pc]
      BY <1>4, Moving DEF Location
    <2>2. LetIn(r)'
      BY <1>1, <1>4, <2>1 DEF Cancelled, At, Good, LetIn, Locals
    <2>3. Accounting(r)'
      BY <1>1, <1>4, <2>1 DEF Cancelled, At, Good, Accounting, Answering, LetIn,
         NeverIterated, Relaying, Locals
    <2>4. Answering(r)'
      BY <1>1, <1>4, <2>1 DEF Cancelled, At, Good, Answering, Early, Loading, Relaying,
         Locals
    <2>5. Noted(r)'
      BY <1>1, <1>4, <2>1 DEF Cancelled, At, Good, Noted, Answering, Early, Loading,
         Relaying, ErrorCode, Locals
    <2>6. Owning(r)'
      BY <1>1, <1>4, <2>1 DEF Cancelled, At, Good, Owning, Answering, NeverIterated,
         Early, Loading, Relaying, ErrorCode, Locals
    <2>7. Told(r)'
      BY <1>1, <1>4, <2>1 DEF Cancelled, At, Good, Accounting, Answering, Noted, Told,
         Truthful, Early, Loading, Relaying, ErrorCode, Locals
    <2> QED
      BY <1>2, <2>1, <2>2, <2>3, <2>4, <2>5, <2>6, <2>7, OneStep DEF Good
  <1> QED
    BY <1>3, <1>4 DEF Cancelled, At

LEMMA PostOkStep == ASSUME IInv, NEW r \in Request, PostOk(r) PROVE IInv'
  <1>1. req \in [Request -> Locals] /\ req[r] \in Locals /\ Good(r)
    BY DEF IInv, TypeOK
  <1>2. supervisor' \in BOOLEAN \X BOOLEAN \X BOOLEAN \X (0..MaxChanges)
    BY DEF IInv, TypeOK, PostOk, supervisor
  <1>3. PICK event \in Whole :
          req' = [req EXCEPT
                   ![r].answer = "ok", ![r].sent = {event}, ![r].tokens = event = "usage",
                   ![r].pc = IF req[r].custom THEN "post_close" ELSE "done",
                   ![r].usage = IF req[r].custom THEN @
                                ELSE Recorded(r, "succeeded", "none", event = "usage")]
    BY DEF PostOk
  <1>4. req[r].usage = <<>> /\ req[r].granted
    BY <1>1 DEF PostOk, At, Good, Accounting, LetIn
  <1>5. PICK tokens \in BOOLEAN : tokens = (event = "usage")
    OBVIOUS
  <1>6. {event} \in SUBSET Event
    BY DEF Whole, Event
  <1>7. CASE req[r].custom
    <2>1. /\ req' = [req EXCEPT ![r] = req'[r]]
          /\ req'[r] = [req[r] EXCEPT !.answer = "ok", !.sent = {event},
                                      !.tokens = tokens, !.pc = "post_close"]
      BY <1>1, <1>3, <1>5, <1>7 DEF Locals
    <2>2. req'[r] \in Locals
      BY <1>1, <1>6, <2>1 DEF Locals, Location, Answer
    <2>3. LetIn(r)'
      BY <1>1, <1>4, <1>5, <1>7, <2>1 DEF PostOk, At, Good, LetIn, Locals, Whole
    <2>4. Accounting(r)'
      BY <1>1, <1>4, <1>5, <1>7, <2>1 DEF PostOk, At, Good, Accounting, Answering, LetIn,
         NeverIterated, Relaying, Locals, Whole
    <2>5. Answering(r)'
      BY <1>1, <1>4, <1>5, <1>7, <2>1 DEF PostOk, At, Good, Answering, Early, Loading,
         Relaying, Locals, Whole
    <2>6. Noted(r)'
      BY <1>1, <1>4, <1>5, <1>7, <2>1 DEF PostOk, At, Good, Noted, Answering, Early,
         Loading, Relaying, ErrorCode, Locals, Whole
    <2>7. Owning(r)'
      BY <1>1, <1>4, <1>5, <1>7, <2>1 DEF PostOk, At, Good, Owning, Answering,
         NeverIterated, Early, Loading, Relaying, ErrorCode, Locals, Whole
    <2>8. Told(r)'
      BY <1>1, <1>4, <1>5, <1>7, <2>1 DEF PostOk, At, Good, Accounting, Answering, Noted,
         Told, Truthful, Early, Loading, Relaying, ErrorCode, Locals, Whole
    <2> QED
      BY <1>2, <2>1, <2>2, <2>3, <2>4, <2>5, <2>6, <2>7, <2>8, OneStep DEF Good
  <1>8. CASE ~req[r].custom
    <2>1. PICK usage \in Seq(Usage) :
            /\ usage = Recorded(r, "succeeded", "none", tokens) /\ Len(usage) = 1
            /\ usage[1].status = "succeeded" /\ usage[1].category = "none"
            /\ usage[1].tokens <=> tokens
      BY <1>4, Recording DEF Category
    <2>2. /\ req' = [req EXCEPT ![r] = req'[r]]
          /\ req'[r] = [req[r] EXCEPT !.answer = "ok", !.sent = {event},
                                      !.tokens = tokens, !.pc = "done",
                                      !.usage = usage]
      BY <1>1, <1>3, <1>5, <1>8, <2>1 DEF Locals
    <2>3. req'[r] \in Locals
      <3>1. "done" \in Location /\ "ok" \in Answer
        BY DEF Location, Answer
      <3> QED
        BY <1>1, <1>6, <2>1, <2>2, <3>1 DEF Locals
    <2>4. LetIn(r)'
      BY <1>1, <1>4, <1>5, <1>8, <2>1, <2>2 DEF PostOk, At, Good, LetIn, Locals, Whole
    <2>5. Accounting(r)'
      BY <1>1, <1>4, <1>5, <1>8, <2>1, <2>2 DEF PostOk, At, Good, Accounting, Answering,
         LetIn, NeverIterated, Relaying, Locals, Whole
    <2>6. Answering(r)'
      BY <1>1, <1>4, <1>5, <1>8, <2>1, <2>2
         DEF PostOk, At, Good, Answering, Early, Loading, Relaying, Locals, Whole
    <2>7. Noted(r)'
      BY <1>1, <1>4, <1>5, <1>8, <2>1, <2>2
         DEF PostOk, At, Good, Noted, Answering, Early, Loading, Relaying, ErrorCode, Locals, Whole
    <2>8. Owning(r)'
      BY <1>1, <1>4, <1>5, <1>8, <2>1, <2>2 DEF PostOk, At, Good, Owning, Answering,
         NeverIterated, Early, Loading, Relaying, ErrorCode, Locals, Whole
    <2>9. Told(r)'
      BY <1>1, <1>4, <1>5, <1>8, <2>1, <2>2 DEF PostOk, At, Good, Accounting, Answering,
         Noted, Told, Truthful, Early, Loading, Relaying, ErrorCode, Locals, Whole
    <2> QED
      BY <1>2, <2>2, <2>3, <2>4, <2>5, <2>6, <2>7, <2>8, <2>9, OneStep DEF Good
  <1> QED
    BY <1>7, <1>8

LEMMA PostCloseStep == ASSUME IInv, NEW r \in Request, PostClose(r) PROVE IInv'
  <1>1. req \in [Request -> Locals] /\ req[r] \in Locals /\ Good(r)
    BY DEF IInv, TypeOK
  <1>2. supervisor' \in BOOLEAN \X BOOLEAN \X BOOLEAN \X (0..MaxChanges)
    BY DEF IInv, TypeOK, PostClose, supervisor
  <1>3. CASE req[r].answer # "ok"
    <2>1. req[r].answer = "none" /\ req[r].pc = "post_close" /\ ProviderFail(r, req[r].error)
      BY <1>1, <1>3 DEF PostClose, At, Good, Answering
    <2> QED
      BY <1>2, <2>1, ProviderFailing, OneStep
  <1>4. CASE req[r].answer = "ok"
    <2>1. req[r].usage = <<>> /\ req[r].granted
      BY <1>1 DEF PostClose, At, Good, Accounting, LetIn
    <2>2. PICK tokens \in BOOLEAN : tokens = req[r].tokens /\ (tokens <=> "usage" \in req[r].sent)
      BY <1>1 DEF Locals, Good, Noted
    <2>3. PICK usage \in Seq(Usage) :
            /\ usage = Recorded(r, "succeeded", "none", tokens) /\ Len(usage) = 1
            /\ usage[1].status = "succeeded" /\ usage[1].category = "none"
            /\ usage[1].tokens <=> tokens
      <3>1. "none" \in Category
        BY DEF Category
      <3> QED
        BY <2>1, <3>1, Recording
    <2>4. /\ req' = [req EXCEPT ![r] = req'[r]]
          /\ req'[r] = [req[r] EXCEPT !.pc = "done", !.plane = "closed", !.usage = usage]
      <3>1. req' = [req EXCEPT ![r].pc = "done", ![r].plane = "closed", ![r].usage = usage]
        BY <1>4, <2>2, <2>3 DEF PostClose
      <3> QED
        BY <1>1, <3>1 DEF Locals
    <2>5. req'[r] \in Locals
      BY <1>1, <2>4 DEF Locals, Location
    <2>6. LetIn(r)'
      BY <1>1, <2>1, <2>4 DEF PostClose, At, Good, LetIn, Locals
    <2>7. Accounting(r)'
      BY <1>1, <2>1, <2>3, <2>4 DEF PostClose, At, Good, Accounting, Locals
    <2>8. Answering(r)'
      BY <1>1, <1>4, <2>4 DEF PostClose, At, Good, Answering, Early, Loading, Relaying, Locals
    <2>9. Noted(r)'
      BY <1>1, <1>4, <2>4 DEF PostClose, At, Good, Noted, Locals
    <2>10. Owning(r)'
      BY <1>1, <1>4, <2>4 DEF PostClose, At, Good, Owning, NeverIterated, Loading, Relaying,
         Locals
    <2>11. Told(r)'
      <3>1. /\ req'[r].usage = usage /\ req'[r].answer = "ok" /\ req'[r].sent = req[r].sent
        BY <1>1, <1>4, <2>4 DEF Locals
      <3> QED
        BY <2>2, <2>3, <3>1 DEF Told, Truthful, ErrorCode
    <2> QED
      BY <1>2, <2>4, <2>5, <2>6, <2>7, <2>8, <2>9, <2>10, <2>11, OneStep DEF Good
  <1> QED
    BY <1>3, <1>4

LEMMA OpenCloseStep == ASSUME IInv, NEW r \in Request, OpenClose(r) PROVE IInv'
  <1>1. supervisor' \in BOOLEAN \X BOOLEAN \X BOOLEAN \X (0..MaxChanges)
    BY DEF IInv, TypeOK, OpenClose, supervisor
  <1>2. /\ req[r].answer = "none" /\ req[r].pc = "open_close"
        /\ ProviderFail(r, req[r].error)
    BY DEF IInv, OpenClose, At, Good, Answering, Early
  <1> QED
    BY <1>1, <1>2, ProviderFailing, OneStep

LEMMA CloseStreamStep == ASSUME IInv, NEW r \in Request, CloseStream(r) PROVE IInv'
  <1>1. req \in [Request -> Locals] /\ req[r] \in Locals /\ Good(r)
    BY DEF IInv, TypeOK
  <1>2. supervisor' \in BOOLEAN \X BOOLEAN \X BOOLEAN \X (0..MaxChanges)
    BY DEF IInv, TypeOK, CloseStream, supervisor
  <1>3. PICK status \in {"succeeded", "failed", "aborted"}, tokens \in BOOLEAN,
             category \in Category,
             pc \in {"close_plane", "done"} :
          /\ req' = [req EXCEPT ![r].upstream = "closed", ![r].pc = pc,
                               ![r].usage = Recorded(r, status, category, tokens)]
          /\ tokens <=> "usage" \in req[r].sent
          /\ status = "succeeded" <=> "done" \in req[r].sent
          /\ status = "aborted" => req[r].gone /\ ~req[r].ended /\ ~req[r].failed
          /\ pc = "close_plane" => req[r].custom
    <2>1. req[r].tokens \in BOOLEAN /\ (req[r].tokens <=> "usage" \in req[r].sent)
      BY <1>1 DEF Locals, Good, Noted
    <2>2. PICK pc \in {"close_plane", "done"} :
            /\ req' = [req EXCEPT ![r].upstream = "closed", ![r].usage = Finished(r), ![r].pc = pc]
            /\ pc = "close_plane" => req[r].custom
      BY DEF CloseStream
    <2>3. /\ req[r].sawDone <=> "done" \in req[r].sent
          /\ req[r].gone \/ req[r].ended \/ req[r].failed
      BY <1>1 DEF CloseStream, At, Good, Noted
    <2>4. PICK status \in {"succeeded", "failed", "aborted"},
               category \in {"none", "stream_incomplete", "client_disconnected"} :
            /\ Finished(r) = Recorded(r, status, category, req[r].tokens)
            /\ status = "succeeded" <=> req[r].sawDone
            /\ status = "aborted" => ~req[r].ended /\ ~req[r].failed
      <3>1. CASE req[r].sawDone
        BY <3>1 DEF Finished
      <3>2. CASE ~req[r].sawDone /\ (req[r].failed \/ req[r].ended)
        BY <3>2 DEF Finished
      <3>3. CASE ~req[r].sawDone /\ ~(req[r].failed \/ req[r].ended)
        BY <3>3 DEF Finished
      <3> QED
        BY <3>1, <3>2, <3>3
    <2>5. req' = [req EXCEPT ![r].upstream = "closed", ![r].pc = pc,
                             ![r].usage = Recorded(r, status, category, req[r].tokens)]
      BY <1>1, <2>2, <2>4 DEF Locals
    <2> QED
      BY <2>1, <2>2, <2>3, <2>4, <2>5 DEF Category
  <1>4. req[r].usage = <<>> /\ req[r].granted
    BY <1>1 DEF CloseStream, At, Good, Accounting, LetIn
  <1>5. PICK usage \in Seq(Usage) :
          /\ usage = Recorded(r, status, category, tokens) /\ Len(usage) = 1
          /\ usage[1].status = status /\ usage[1].category = category
          /\ usage[1].tokens <=> tokens
    BY <1>4, Recording
  <1>6. /\ req' = [req EXCEPT ![r] = req'[r]]
         /\ req'[r] = [req[r] EXCEPT !.upstream = "closed", !.pc = pc, !.usage = usage]
    BY <1>1, <1>3, <1>5 DEF Locals
  <1>7. req'[r] \in Locals
    BY <1>1, <1>6 DEF Locals, Location, Answer, ErrorCode
  <1>8. LetIn(r)'
    BY <1>1, <1>3, <1>4, <1>5, <1>6 DEF CloseStream, At, Good, LetIn, Locals
  <1>9. Accounting(r)'
    BY <1>1, <1>3, <1>4, <1>5, <1>6 DEF CloseStream, At, Good, Accounting, Answering,
       LetIn, NeverIterated, Relaying, Locals
  <1>10. Answering(r)'
    BY <1>1, <1>3, <1>4, <1>5, <1>6 DEF CloseStream, At, Good, Answering, Early, Loading,
       Relaying, Locals
  <1>11. Noted(r)'
    BY <1>1, <1>3, <1>4, <1>5, <1>6 DEF CloseStream, At, Good, Noted, Answering, Early,
       Loading, Relaying, ErrorCode, Locals
  <1>12. Owning(r)'
    BY <1>1, <1>3, <1>4, <1>5, <1>6 DEF CloseStream, At, Good, Owning, Answering,
       NeverIterated, Early, Loading, Relaying, ErrorCode, Locals
  <1>13. Told(r)'
    BY <1>1, <1>3, <1>4, <1>5, <1>6 DEF CloseStream, At, Good, Accounting, Answering,
       Noted, Told, Truthful, Early, Loading, Relaying, ErrorCode, Locals
  <1> QED
    BY <1>2, <1>6, <1>7, <1>8, <1>9, <1>10, <1>11, <1>12, <1>13, OneStep DEF Good

(* The Supervisor's writes and stuttering touch no request.                *)
LEMMA OthersStep ==
    ASSUME IInv, UNCHANGED req,
           supervisor' \in BOOLEAN \X BOOLEAN \X BOOLEAN \X (0..MaxChanges)
    PROVE  IInv'
  <1>1. TypeOK'
    BY DEF IInv, TypeOK, supervisor
  <1>2. ASSUME NEW r \in Request PROVE Good(r)'
    <2>1. Good(r)
      BY DEF IInv
    <2> QED
      BY <2>1 DEF Good, LetIn, Accounting, Answering, Noted, Owning, Told, Truthful,
         NeverIterated
  <1> QED
    BY <1>1, <1>2 DEF IInv

LEMMA NextIInv == IInv /\ [Next]_vars => IInv'
  <1> SUFFICES ASSUME IInv, [Next]_vars PROVE IInv'
    OBVIOUS
  <1>1. ASSUME NEW r \in Request, Handle(r) PROVE IInv'
    BY <1>1, AuthReadStep, AuthUpdateStep, BodyStep, BodyLostStep, ResolveStep,
       RefreshStep, LoadStep, PostOkStep, PostErrorStep, PostCloseStep,
       MissStep, OpenStep, OpenErrorStep, OpenBreaksStep, OpenCloseStep,
       SendHeadStep, PullLineStep, PushStep, PullEndStep, CancelledStep,
       CloseStreamStep, ClosePlaneStep DEF Handle
  <1>2. ASSUME NEW r \in Request, ClientLeaves(r) PROVE IInv'
    BY <1>2, ClientLeavesStep
  <1>3. CASE Revoke
    BY <1>3, OthersStep DEF Revoke, IInv, TypeOK, supervisor
  <1>4. CASE Change
    <2>1. active' \in BOOLEAN /\ UNCHANGED req
      BY <1>4 DEF Change, IInv, TypeOK
    <2>2. available' \in BOOLEAN /\ configured' \in BOOLEAN
      BY <1>4 DEF Change, IInv, TypeOK
    <2>3. changes' \in 0..MaxChanges
      BY <1>4, BoundAssumption DEF Change, IInv, TypeOK
    <2> QED
      BY <2>1, <2>2, <2>3, OthersStep DEF supervisor
  <1>5. CASE UNCHANGED vars
    BY <1>5, OthersStep DEF vars, IInv, TypeOK, supervisor
  <1> QED
    BY <1>1, <1>2, <1>3, <1>4, <1>5 DEF Next

LEMMA Invariance == Spec => []IInv
  BY InitIInv, NextIInv, PTL DEF Spec

-----------------------------------------------------------------------------
(* Every variable of the chat route keeps its type.                        *)
THEOREM TypeCorrect == Spec => []TypeOK
  <1>1. IInv => TypeOK
    BY DEF IInv
  <1> QED
    BY <1>1, Invariance, PTL

(* However a chat request ends, finish_usage ran for it once, and never    *)
(* for one that was not authenticated.                                     *)
THEOREM ChatAccountedOnce == Spec => []AccountedOnce
  <1>1. IInv => AccountedOnce
    <2> SUFFICES ASSUME IInv, NEW r \in Request
        PROVE  /\ Len(req[r].usage) <= 1
               /\ ~req[r].granted => req[r].usage = <<>>
               /\ /\ req[r].pc = "done" /\ req[r].granted
                  /\ req[r].answer # "exception" /\ ~NeverIterated(r)
                  => Len(req[r].usage) = 1
      BY DEF AccountedOnce
    <2>1. LetIn(r) /\ Accounting(r)
      BY DEF IInv, Good
    <2>2. Len(req[r].usage) <= 1
      <3>1. CASE req[r].usage = <<>>
        BY <3>1
      <3>2. CASE Len(req[r].usage) = 1
        BY <3>2
      <3> QED
        BY <2>1, <3>1, <3>2 DEF Accounting
    <2> QED
      BY <2>1, <2>2 DEF LetIn, Accounting
  <1> QED
    BY <1>1, Invariance, PTL

(* The status, category and tokens handed to the recorder are those of     *)
(* what the request's caller got, whichever call site recorded them.       *)
THEOREM ChatAccountedTruthfully == Spec => []TruthfulStatus
  <1>1. IInv => TruthfulStatus
    <2> SUFFICES ASSUME IInv, NEW r \in Request, NEW i \in 1..Len(req[r].usage)
        PROVE  Truthful(r, req[r].usage[i])
      BY DEF TruthfulStatus
    <2>1. Accounting(r) /\ Told(r)
      BY DEF IInv, Good
    <2>2. i = 1 /\ req[r].usage # <<>>
      <3>1. CASE req[r].usage = <<>>
        BY <3>1
      <3>2. CASE Len(req[r].usage) = 1
        BY <3>2
      <3>3. req[r].usage = <<>> \/ Len(req[r].usage) = 1
        BY <2>1 DEF Accounting
      <3> QED
        BY <3>1, <3>2, <3>3, Zenon
    <2> QED
      BY <2>1, <2>2 DEF Told
  <1> QED
    BY <1>1, Invariance, PTL

(* A chat request that is over left no upstream response open, but for a   *)
(* generator that never ran, and no provider's client of a plain answer.   *)
THEOREM ChatReleases == Spec => []Released
  <1>1. IInv => Released
    <2> SUFFICES ASSUME IInv, NEW r \in Request, req[r].pc = "done"
        PROVE  /\ req[r].upstream # "open" \/ NeverIterated(r)
               /\ req[r].answer \in {"ok"} \cup ErrorCode => req[r].plane # "open"
      BY DEF Released
    <2>1. Owning(r)
      BY DEF IInv, Good
    <2> QED
      BY <2>1 DEF Owning, Relaying, ErrorCode
  <1> QED
    BY <1>1, Invariance, PTL

(* A handler that fails keeps what it was granted and what it has sent.    *)
LEMMA Fails ==
    ASSUME DOMAIN req = Request, NEW r \in Request,
           {"pc", "granted", "lines"} \subseteq DOMAIN req[r],
           NEW error, NEW category, NEW code,
           FailOn(r, error, category, code) \/ ProviderFail(r, error)
    PROVE  /\ req' = [req EXCEPT ![r] = req'[r]] /\ req'[r].granted = req[r].granted
           /\ req'[r].lines = req[r].lines /\ req'[r].pc = "done"
  <1>1. ASSUME NEW usage, NEW answer,
               \/ req' = [req EXCEPT ![r].pc = "done", ![r].error = error,
                                     ![r].answer = answer, ![r].usage = usage]
               \/ req' = [req EXCEPT ![r].pc = "done", ![r].plane = "closed",
                                     ![r].answer = answer, ![r].usage = usage]
        PROVE  /\ req' = [req EXCEPT ![r] = req'[r]] /\ req'[r].granted = req[r].granted
               /\ req'[r].lines = req[r].lines /\ req'[r].pc = "done"
    BY <1>1
  <1> QED
    BY <1>1, Zenon DEF FailOn, ProviderFail

(* A data plane that raises lets nobody in.                                *)
LEMMA RaisedGrants ==
    ASSUME DOMAIN req = Request, NEW r \in Request,
           {"pc", "granted", "lines"} \subseteq DOMAIN req[r],
           NEW closing, Raised(r, closing)
    PROVE  req' = [req EXCEPT ![r] = req'[r]] /\ req'[r].granted = req[r].granted
  <1>1. PICK error \in Failures(r) :
          \/ req' = [req EXCEPT ![r].pc = closing, ![r].error = error]
          \/ Goto(r, "miss")
          \/ SidecarFail(r, error)
    BY DEF Raised
  <1> QED
    BY <1>1, Fails DEF Goto, SidecarFail

(* Only AuthUpdate lets a caller in, and only while the key is active.     *)
LEMMA Granting ==
    ASSUME DOMAIN req = Request, NEW r \in Request,
           {"pc", "granted", "lines"} \subseteq DOMAIN req[r],
           ~active, Handle(r)
    PROVE  req' = [req EXCEPT ![r] = req'[r]] /\ req'[r].granted = req[r].granted
  <1>1. CASE AuthRead(r)
    BY <1>1 DEF AuthRead, Goto, Reply
  <1>2. CASE AuthUpdate(r)
    BY <1>2 DEF AuthUpdate, Reply
  <1>3. CASE Body(r)
    BY <1>3, Fails DEF Body, Fail
  <1>4. CASE BodyLost(r)
    BY <1>4 DEF BodyLost, Reply
  <1>5. CASE Resolve(r)
    BY <1>5 DEF Resolve, Goto
  <1>6. CASE Refresh(r)
    BY <1>6, Fails DEF Refresh, Goto, Fail
  <1>7. CASE Load(r)
    BY <1>7, Fails DEF Load, Fail
  <1>8. CASE PostError(r)
    BY <1>8, RaisedGrants DEF PostError
  <1>9. CASE PostClose(r)
    BY <1>9, Fails DEF PostClose
  <1>10. CASE Miss(r)
    BY <1>10, Fails DEF Miss, Fail
  <1>11. CASE Open(r)
    BY <1>11 DEF Open
  <1>12. CASE OpenError(r)
    BY <1>12, RaisedGrants DEF OpenError
  <1>13. CASE OpenBreaks(r)
    BY <1>13 DEF OpenBreaks
  <1>14. CASE OpenClose(r)
    BY <1>14, Fails DEF OpenClose
  <1>15. CASE SendHead(r)
    BY <1>15 DEF SendHead, Goto
  <1>16. CASE Push(r)
    BY <1>16 DEF Push, Goto
  <1>17. CASE Cancelled(r)
    BY <1>17 DEF Cancelled, Goto
  <1>18. CASE CloseStream(r)
    BY <1>18 DEF CloseStream
  <1>19. CASE ClosePlane(r)
    BY <1>19 DEF ClosePlane
  <1>20. CASE PostOk(r)
    <2>1. PICK event \in Whole :
            req' = [req EXCEPT
                     ![r].answer = "ok", ![r].sent = {event}, ![r].tokens = event = "usage",
                     ![r].pc = IF req[r].custom THEN "post_close" ELSE "done",
                     ![r].usage = IF req[r].custom THEN @
                                  ELSE Recorded(r, "succeeded", "none", event = "usage")]
      BY <1>20 DEF PostOk
    <2>2. PICK tokens \in BOOLEAN : tokens = (event = "usage")
      OBVIOUS
    <2> QED
      BY <2>1, <2>2
  <1>21. CASE PullLine(r)
    <2>1. PICK event \in Event :
            req' = [req EXCEPT ![r].pc = "push", ![r].started = TRUE, ![r].lines = @ + 1,
                               ![r].sent = @ \cup {event},
                               ![r].tokens = @ \/ event = "usage",
                               ![r].sawDone = @ \/ event = "done"]
      BY <1>21 DEF PullLine
    <2> QED
      BY <2>1
  <1>22. CASE PullEnd(r)
    <2>1. PICK broken \in BOOLEAN :
            req' = [req EXCEPT ![r].pc = "close", ![r].started = TRUE, ![r].pulling = TRUE,
                               ![r].ended = ~broken, ![r].failed = broken]
      BY <1>22 DEF PullEnd
    <2> QED
      BY <2>1
  <1> QED
    BY <1>1, <1>2, <1>3, <1>4, <1>5, <1>6, <1>7, <1>8, <1>9, <1>10, <1>11, <1>12,
       <1>13, <1>14, <1>15, <1>16, <1>17, <1>18, <1>19, <1>20, <1>21, <1>22 DEF Handle

(* authenticate's second statement is conditional on the key being active, *)
(* so a revocation after its first one still keeps the caller out.         *)
THEOREM ChatRevokedKey == Spec => RevokedKeyLetsNobodyIn
  <1>1. IInv /\ [Next]_vars =>
          [~active => \A r \in Request : req'[r].granted = req[r].granted]_vars
    <2> SUFFICES ASSUME IInv, Next, ~active, NEW s \in Request
        PROVE  req'[s].granted = req[s].granted
      OBVIOUS
    <2>1. DOMAIN req = Request 
          /\ \A r \in Request : {"pc", "granted", "lines"} \subseteq DOMAIN req[r]
      BY DEF IInv, TypeOK, Locals
    <2>2. ASSUME NEW r \in Request, Handle(r)
          PROVE  req' = [req EXCEPT ![r] = req'[r]] /\ req'[r].granted = req[r].granted
      BY <2>1, <2>2, Granting
    <2>3. ASSUME NEW r \in Request, ClientLeaves(r)
          PROVE  req' = [req EXCEPT ![r] = req'[r]] /\ req'[r].granted = req[r].granted
      BY <2>1, <2>3 DEF ClientLeaves
    <2>4. ASSUME NEW r \in Request, req' = [req EXCEPT ![r] = req'[r]],
                 req'[r].granted = req[r].granted
          PROVE  req'[s].granted = req[s].granted
      BY <2>1, <2>4
    <2> QED
      BY <2>2, <2>3, <2>4 DEF Next, Revoke, Change
  <1> QED
    BY <1>1, Invariance, PTL DEF Spec, RevokedKeyLetsNobodyIn

-----------------------------------------------------------------------------
(* That a stream is closed in the end is a matter of fairness, and         *)
(* fairness of two facts about steps: each of a handler's brings it nearer *)
(* to its end, and the event loop is never blocked for good.               *)

(* The steps a handler has before it, at most, apart from the events that  *)
(* are still to come.                                                      *)
Steps ==
    [done |-> 0, close_plane |-> 1, post_close |-> 1, open_close |-> 1, miss |-> 1,
     close |-> 2, post |-> 2, pull |-> 3, push |-> 4, head |-> 4, open |-> 5, load |-> 6,
     refresh |-> 7, resolve |-> 8, body |-> 9, verify |-> 10, new |-> 11]

Unsent(r) ==
    IF req[r].pc \in {"pull", "push"} THEN 2 * (MaxLines - req[r].lines)
    ELSE IF req[r].pc \in Loading \cup {"open", "head"} THEN 2 * MaxLines
    ELSE 0

Left(r) == Steps[req[r].pc] + Unsent(r)

(* A handler ends after a bounded number of its own steps, wherever its    *)
(* client leaves it, and no other request's step puts that off.            *)
HandlersAdvance ==
    [][\A r \in Request :
         /\ Left(r)' <= Left(r)
         /\ Handle(r) => Left(r)' < Left(r)]_vars

(* One request verifies at a time.                                         *)
OneVerifies ==
    \A q, r \in Request : req[q].pc = "verify" /\ req[r].pc = "verify" => q = r

(* While a request is not over, the event loop is free for it, or for the  *)
(* one whose verification blocks it.                                       *)
SomebodyRuns ==
    \A r \in Request : req[r].pc # "done" =>
       \E q \in Request : req[q].pc # "done" /\ At(q, req[q].pc)

(* Which place a handler's step leads from and to.                         *)
From(r, here, there) ==
    /\ req[r].pc = here /\ req'[r].pc \in there
    /\ req'[r].lines = req[r].lines /\ req' = [req EXCEPT ![r] = req'[r]]

LEMMA FromAdvances ==
    ASSUME IInv, NEW r \in Request, NEW here \in Location, NEW there \in SUBSET Location,
           From(r, here, there), here # "done",
           \A place \in there : Steps[place] < Steps[here],
           here \in {"pull", "push"} => there \subseteq {"pull", "close", "done"},
           here \in {"post", "post_close", "open_close", "miss", "close", "close_plane"} =>
             there \cap (Loading \cup {"open", "head", "pull", "push"}) = {}
    PROVE  /\ Left(r)' \in Int /\ Left(r)' < Left(r) /\ req'[r].pc \in there
           /\ \A q \in Request \ {r} : req'[q] = req[q]
  <1>1. /\ req[r].pc = here /\ req'[r].pc \in there /\ req'[r].lines = req[r].lines
        /\ req[r].lines \in 0..MaxLines /\ MaxLines \in Nat
        /\ \A q \in Request \ {r} : req'[q] = req[q]
    BY BoundAssumption DEF From, IInv, TypeOK, Locals
  <1>2. PICK place \in there : req'[r].pc = place
    BY <1>1
  <1>3. Steps[place] \in Nat /\ Steps[here] \in Nat /\ Steps[place] < Steps[here]
    <2>1. place \in Location
      BY <1>2
    <2>2. \A location \in Location : Steps[location] \in Nat
      BY DEF Steps, Location
    <2> QED
      BY <1>2, <2>1, <2>2
  <1>4. Unsent(r)' <= Unsent(r) /\ Unsent(r)' \in Int /\ Unsent(r) \in Int
    <2>1. \/ Unsent(r) = 2 * MaxLines
          \/ here \in {"pull", "push"} /\ Unsent(r) = 2 * (MaxLines - req[r].lines)
          \/ here \notin {"pull", "push"} \cup Loading \cup {"open", "head"} /\ Unsent(r) = 0
      BY <1>1 DEF Unsent
    <2>2. \/ place \in {"pull", "push"} /\ Unsent(r)' = 2 * (MaxLines - req[r].lines)
          \/ place \in Loading \cup {"open", "head"} /\ Unsent(r)' = 2 * MaxLines
          \/ Unsent(r)' = 0
      BY <1>1, <1>2 DEF Unsent
    <2>3. here \in {"pull", "push"} => place \notin Loading \cup {"open", "head"}
      BY <1>2 DEF Loading
    <2>4. here \notin {"pull", "push"} \cup Loading \cup {"open", "head"} =>
            place \notin {"pull", "push"} \cup Loading \cup {"open", "head"}
      BY <1>2 DEF Location, Loading
    <2> QED
      BY <1>1, <2>1, <2>2, <2>3, <2>4
  <1>5. Left(r) = Steps[here] + Unsent(r) /\ Left(r)' = Steps[place] + Unsent(r)'
    BY <1>1, <1>2 DEF Left
  <1> QED
    BY <1>1, <1>3, <1>4, <1>5

LEMMA HandleAdvances ==
    ASSUME IInv, NEW r \in Request, Handle(r)
    PROVE  /\ Left(r)' \in Int /\ Left(r)' < Left(r)
           /\ \A q \in Request \ {r} : req'[q] = req[q]
           /\ req'[r].pc = "verify" => AuthRead(r)
  <1>0. /\ DOMAIN req = Request /\ {"pc", "granted", "lines"} \subseteq DOMAIN req[r]
        /\ req[r] \in Locals
    BY DEF IInv, TypeOK, Locals
  <1>a. ASSUME NEW answer, NEW usage, Reply(r, answer, usage), NEW there, "done" \in there
        PROVE  From(r, req[r].pc, there)
    BY <1>0, <1>a DEF Reply, From
  <1>c. ASSUME NEW error, NEW category, NEW code, FailOn(r, error, category, code),
               NEW there, "done" \in there
        PROVE  From(r, req[r].pc, there)
    BY <1>0, <1>c, Fails DEF From
  <1>b. ASSUME NEW place, Goto(r, place), NEW there, place \in there
        PROVE  From(r, req[r].pc, there)
    BY <1>0, <1>b DEF Goto, From
  <1>d. ASSUME NEW closing, Raised(r, closing), NEW there, {closing, "miss", "done"} \subseteq there
        PROVE  From(r, req[r].pc, there)
    <2>1. PICK error \in Failures(r) :
            \/ req' = [req EXCEPT ![r].pc = closing, ![r].error = error]
            \/ Goto(r, "miss")
            \/ SidecarFail(r, error)
      BY <1>d DEF Raised
    <2>2. CASE req' = [req EXCEPT ![r].pc = closing, ![r].error = error]
      BY <1>0, <1>d, <2>2 DEF From
    <2> QED
      BY <1>b, <1>c, <1>d, <2>1, <2>2 DEF SidecarFail
  <1>1. CASE AuthRead(r)
    <2>1. From(r, "new", {"verify", "done"})
      BY <1>0, <1>1 DEF AuthRead, At, Goto, Reply, From
    <2> QED
      BY <1>1, <2>1, FromAdvances DEF Steps, Loading, Location
  <1>2. CASE AuthUpdate(r)
    <2>1. From(r, "verify", {"body", "done"})
      BY <1>0, <1>2 DEF AuthUpdate, At, Reply, From
    <2> QED
      BY <2>1, FromAdvances DEF Steps, Loading, Location
  <1>3. CASE Body(r)
    <2>1. From(r, "body", {"resolve", "done"})
      <3>1. ASSUME NEW stream \in BOOLEAN, NEW custom \in BOOLEAN,
                   req' = [req EXCEPT ![r].pc = "resolve", ![r].stream = stream,
                                      ![r].custom = custom]
            PROVE  From(r, req[r].pc, {"resolve", "done"})
        BY <1>0, <3>1 DEF From
      <3> QED
        BY <1>3, <1>c, <3>1 DEF Body, At, Fail
    <2> QED
      BY <2>1, FromAdvances DEF Steps, Loading, Location
  <1>4. CASE BodyLost(r)
    <2>1. From(r, "body", {"done"})
      BY <1>0, <1>4 DEF BodyLost, At, Reply, From
    <2> QED
      BY <2>1, FromAdvances DEF Steps, Loading, Location
  <1>5. CASE Resolve(r)
    <2>1. From(r, "resolve", {"load", "open", "post", "refresh"})
      BY <1>0, <1>5 DEF Resolve, Resolved, At, Goto, From
    <2> QED
      BY <2>1, FromAdvances DEF Steps, Loading, Location
  <1>6. CASE Refresh(r)
    <2>1. From(r, "refresh", {"load", "open", "post", "done"})
      <3>1. Resolved(r) \in {"load", "open", "post", "done"}
        BY DEF Resolved
      <3>2. Goto(r, Resolved(r)) \/ Fail(r, "model_not_found")
        BY <1>6 DEF Refresh
      <3> QED
        BY <1>6, <1>c, <1>b, <3>1, <3>2 DEF Refresh, At, Fail
    <2> QED
      BY <2>1, FromAdvances DEF Steps, Loading, Location
  <1>7. CASE Load(r)
    <2>1. From(r, "load", {"open", "post", "done"})
      <3>1. CASE configured
        BY <1>0, <1>7, <3>1 DEF Load, At, From
      <3>2. CASE ~configured
        BY <1>7, <1>c, <3>2 DEF Load, At, Fail
      <3> QED
        BY <3>1, <3>2
    <2> QED
      BY <2>1, FromAdvances DEF Steps, Loading, Location
  <1>8. CASE PostOk(r)
    <2>1. From(r, "post", {"post_close", "done"})
      <3>1. PICK event \in Whole :
              req' = [req EXCEPT
                       ![r].answer = "ok", ![r].sent = {event}, ![r].tokens = event = "usage",
                       ![r].pc = IF req[r].custom THEN "post_close" ELSE "done",
                       ![r].usage = IF req[r].custom THEN @
                                    ELSE Recorded(r, "succeeded", "none", event = "usage")]
        BY <1>8 DEF PostOk
      <3>2. PICK tokens \in BOOLEAN : tokens = (event = "usage")
        OBVIOUS
      <3> QED
        BY <1>0, <1>8, <3>1, <3>2 DEF PostOk, At, From
    <2> QED
      BY <2>1, FromAdvances DEF Steps, Loading, Location
  <1>9. CASE PostError(r)
    <2>1. From(r, "post", {"post_close", "miss", "done"})
      BY <1>9, <1>d DEF PostError, At
    <2> QED
      BY <2>1, FromAdvances DEF Steps, Loading, Location
  <1>10. CASE PostClose(r)
    <2>1. From(r, "post_close", {"done"})
      BY <1>0, <1>10, Fails DEF PostClose, At, From
    <2> QED
      BY <2>1, FromAdvances DEF Steps, Loading, Location
  <1>11. CASE Miss(r)
    <2>1. From(r, "miss", {"done"})
      BY <1>0, <1>11, Fails DEF Miss, At, Fail, From
    <2> QED
      BY <2>1, FromAdvances DEF Steps, Loading, Location
  <1>12. CASE Open(r)
    <2>1. From(r, "open", {"head"})
      BY <1>0, <1>12 DEF Open, At, From
    <2> QED
      BY <2>1, FromAdvances DEF Steps, Loading, Location
  <1>13. CASE OpenError(r)
    <2>1. From(r, "open", {"open_close", "miss", "done"})
      BY <1>13, <1>d DEF OpenError, At
    <2> QED
      BY <2>1, FromAdvances DEF Steps, Loading, Location
  <1>14. CASE OpenBreaks(r)
    <2>1. From(r, "open", {"done"})
      BY <1>0, <1>14 DEF OpenBreaks, At, From
    <2> QED
      BY <2>1, FromAdvances DEF Steps, Loading, Location
  <1>15. CASE OpenClose(r)
    <2>1. From(r, "open_close", {"done"})
      BY <1>0, <1>15, Fails DEF OpenClose, At, From
    <2> QED
      BY <2>1, FromAdvances DEF Steps, Loading, Location
  <1>16. CASE SendHead(r)
    <2>1. From(r, "head", {"pull"})
      BY <1>0, <1>16 DEF SendHead, At, Goto, From
    <2> QED
      BY <2>1, FromAdvances DEF Steps, Loading, Location
  <1>17. CASE Push(r)
    <2>1. From(r, "push", {"pull"})
      BY <1>0, <1>17 DEF Push, At, Goto, From
    <2> QED
      BY <2>1, FromAdvances DEF Steps, Loading, Location
  <1>18. CASE Cancelled(r)
    <2>1. \/ From(r, "pull", {"close"})
          \/ From(r, "head", {"close", "done"})
          \/ From(r, "push", {"close", "done"})
      BY <1>0, <1>18 DEF Cancelled, At, Goto, From
    <2>2. CASE From(r, "pull", {"close"})
      BY <2>2, FromAdvances DEF Steps, Loading, Location
    <2>3. CASE From(r, "head", {"close", "done"})
      BY <2>3, FromAdvances DEF Steps, Loading, Location
    <2>4. CASE From(r, "push", {"close", "done"})
      BY <2>4, FromAdvances DEF Steps, Loading, Location
    <2> QED
      BY <2>1, <2>2, <2>3, <2>4
  <1>19. CASE CloseStream(r)
    <2>1. From(r, "close", {"close_plane", "done"})
      BY <1>0, <1>19 DEF CloseStream, At, From
    <2> QED
      BY <2>1, FromAdvances DEF Steps, Loading, Location
  <1>20. CASE ClosePlane(r)
    <2>1. From(r, "close_plane", {"done"})
      BY <1>0, <1>20 DEF ClosePlane, At, From
    <2> QED
      BY <2>1, FromAdvances DEF Steps, Loading, Location
  <1>21. CASE PullLine(r)
    <2>1. PICK event \in Event :
            req' = [req EXCEPT ![r].pc = "push", ![r].started = TRUE, ![r].lines = @ + 1,
                               ![r].sent = @ \cup {event},
                               ![r].tokens = @ \/ event = "usage",
                               ![r].sawDone = @ \/ event = "done"]
      BY <1>21 DEF PullLine
    <2>2. /\ req[r].pc = "pull" /\ req'[r].pc = "push"
          /\ req'[r].lines = req[r].lines + 1 /\ req[r].lines \in 0..MaxLines
          /\ \A q \in Request \ {r} : req'[q] = req[q]
      BY <1>0, <1>21, <2>1 DEF PullLine, At, Locals
    <2>3. /\ Left(r) = 3 + 2 * (MaxLines - req[r].lines)
          /\ Left(r)' = 4 + 2 * (MaxLines - (req[r].lines + 1))
      BY <2>2 DEF Left, Steps, Unsent
    <2> QED
      BY <2>2, <2>3, BoundAssumption
  <1>22. CASE PullEnd(r)
    <2>1. From(r, "pull", {"close"})
      <3>1. PICK broken \in BOOLEAN :
              req' = [req EXCEPT ![r].pc = "close", ![r].started = TRUE, ![r].pulling = TRUE,
                                 ![r].ended = ~broken, ![r].failed = broken]
        BY <1>22 DEF PullEnd
      <3> QED
        BY <1>0, <1>22, <3>1 DEF PullEnd, At, From
    <2> QED
      BY <2>1, FromAdvances DEF Steps, Loading, Location
  <1> QED
    BY <1>1, <1>2, <1>3, <1>4, <1>5, <1>6, <1>7, <1>8, <1>9, <1>10, <1>11, <1>12,
       <1>13, <1>14, <1>15, <1>16, <1>17, <1>18, <1>19, <1>20, <1>21, <1>22 DEF Handle

LEMMA LeftIsInt == ASSUME IInv, NEW r \in Request PROVE Left(r) \in Int
  <1>1. req[r].pc \in Location /\ req[r].lines \in 0..MaxLines /\ MaxLines \in Nat
    BY BoundAssumption DEF IInv, TypeOK, Locals
  <1>2. Steps[req[r].pc] \in Int
    BY <1>1 DEF Steps, Location
  <1>3. Unsent(r) \in Int
    BY <1>1 DEF Unsent
  <1> QED
    BY <1>2, <1>3 DEF Left

(* Every step of a chat request's handler brings its end nearer.           *)
THEOREM ChatAdvances == Spec => HandlersAdvance
  <1>1. ASSUME IInv, [Next]_vars, NEW r \in Request
        PROVE  Left(r)' <= Left(r) /\ (Handle(r) => Left(r)' < Left(r))
    <2>1. CASE Handle(r)
      BY <1>1, <2>1, HandleAdvances, LeftIsInt
    <2>2. ASSUME req'[r] = req[r] PROVE Left(r)' <= Left(r)
      BY <1>1, <2>2, LeftIsInt DEF Left, Unsent
    <2>3. ASSUME NEW q \in Request \ {r}, Handle(q) PROVE req'[r] = req[r]
      BY <1>1, <2>3, HandleAdvances
    <2>4. ASSUME NEW q \in Request, ClientLeaves(q) PROVE Left(r)' <= Left(r)
      <3>1. req'[r].pc = req[r].pc /\ req'[r].lines = req[r].lines
        BY <1>1, <2>4 DEF ClientLeaves, IInv, TypeOK, Locals
      <3> QED
        BY <1>1, <3>1, LeftIsInt DEF Left, Unsent
    <2>5. ASSUME Revoke \/ Change \/ UNCHANGED vars PROVE req'[r] = req[r]
      BY <2>5 DEF Revoke, Change, vars
    <2> QED
      BY <1>1, <2>1, <2>2, <2>3, <2>4, <2>5 DEF Next
  <1>2. ASSUME IInv, [Next]_vars
        PROVE  \A r \in Request :
                 /\ Left(r)' <= Left(r)
                 /\ Handle(r) => Left(r)' < Left(r)
    BY <1>1, <1>2
  <1> QED
    BY <1>2, Invariance, PTL DEF Spec, HandlersAdvance

LEMMA NextVerifies == ASSUME IInv, OneVerifies, [Next]_vars PROVE OneVerifies'
  <1>1. ASSUME NEW r \in Request, Handle(r)
        PROVE  OneVerifies'
    <2>1. /\ \A q \in Request \ {r} : req'[q] = req[q]
          /\ req'[r].pc = "verify" => AuthRead(r)
      BY <1>1, HandleAdvances
    <2>2. req'[r].pc = "verify" => \A q \in Request \ {r} : req'[q].pc # "verify"
      BY <2>1 DEF AuthRead, At
    <2> QED
      BY <2>1, <2>2 DEF OneVerifies
  <1>2. ASSUME NEW r \in Request, ClientLeaves(r) PROVE OneVerifies'
    <2>1. \A q \in Request : req'[q].pc = req[q].pc
      BY <1>2 DEF ClientLeaves, IInv, TypeOK, Locals
    <2> QED
      BY <2>1 DEF OneVerifies
  <1>3. CASE Revoke \/ Change \/ UNCHANGED vars
    BY <1>3 DEF Revoke, Change, vars, OneVerifies
  <1> QED
    BY <1>1, <1>2, <1>3 DEF Next

(* The event loop is blocked by at most one verification, which ends.      *)
THEOREM EventLoopRuns == Spec => []SomebodyRuns
  <1>1. Init => OneVerifies
    BY DEF Init, OneVerifies, Fresh
  <1>2. IInv /\ OneVerifies /\ [Next]_vars => OneVerifies'
    BY NextVerifies
  <1>3. ASSUME OneVerifies PROVE SomebodyRuns
    <2> SUFFICES ASSUME NEW r \in Request, req[r].pc # "done"
                 PROVE  \E q \in Request : req[q].pc # "done" /\ At(q, req[q].pc)
      BY DEF SomebodyRuns
    <2>1. CASE \E q \in Request : req[q].pc = "verify"
      BY <1>3, <2>1 DEF OneVerifies, At
    <2>2. CASE \A q \in Request : req[q].pc # "verify"
      BY <2>2 DEF At
    <2> QED
      BY <2>1, <2>2
  <1> QED
    BY <1>1, <1>2, <1>3, Invariance, PTL DEF Spec
=============================================================================
