------------------------- MODULE AuditedWriteProofs -------------------------
(***************************************************************************)
(* Proofs about module AuditedWrite, for any sets of requests,             *)
(* credentials, tools and payloads, whichever of the tools run under       *)
(* ATOMIC_REQUESTS.                                                        *)
(***************************************************************************)
EXTENDS AuditedWrite, TLAPS

RailProofs == INSTANCE ConfirmTokenProofs
                WITH Calls <- Requests, Tokens <- Requests, Fingerprints <- Ops

-----------------------------------------------------------------------------
(* Next, action by action: the case split of every step below.             *)
LEMMA NextCases ==
  ASSUME Next
  PROVE  \/ \E r \in Requests, cred \in Credentials, tool \in Tools,
               payload \in Payloads, token \in Requests \cup {None} :
               Receive(r, cred, tool, payload, token)
         \/ \E r \in Requests : Works(r)
         \/ \E r \in Requests : Faults(r)
         \/ \E t \in Requests : TokenExpires(t)
  BY DEF Next, Arrives

-----------------------------------------------------------------------------
(* A received call has its fields, so its fingerprint is well formed.      *)
Received == \A r \in Requests : pc[r] # "idle" => req[r] \in Call

\* What the rail of ConfirmToken needs to know of the pipeline.
Typed == /\ pc \in [Requests -> Stages]
         /\ req \in [Requests -> Call \cup {None}]
         /\ Received

LEMMA FingerprintTyped ==
  ASSUME Typed, NEW r \in Requests, pc[r] # "idle"
  PROVE  Fingerprint(r) \in Ops
  BY PipelineAssumption DEF Typed, Received, Call, Fingerprint, Ops, Credentials

(* Every step of the pipeline is a step of the confirm-token rail, or      *)
(* leaves the rail alone.                                                  *)
LEMMA RailStep ==
  ASSUME Typed, [Next]_vars
  PROVE  [Rail!TokenNext]_tokenVars
<1> USE DEF tokenVars
<1>1. ASSUME NEW r \in Requests, RateAllows(r) PROVE [Rail!TokenNext]_tokenVars
  <2>1. CASE req[r].tool \in Gated
    <3>1. Fingerprint(r) \in Ops
      BY <1>1, FingerprintTyped DEF RateAllows
    <3>2. req[r].token \in Requests \cup {None}
      BY <1>1 DEF RateAllows, Typed, Received, Call
    <3>3. Rail!Enter(r, req[r].token, Fingerprint(r))
      BY <1>1, <2>1 DEF RateAllows
    <3> QED
      BY <3>1, <3>2, <3>3 DEF Rail!TokenNext
  <2>2. CASE req[r].tool \notin Gated
    BY <1>1, <2>2 DEF RateAllows
  <2> QED
    BY <2>1, <2>2
<1>2. ASSUME NEW r \in Requests, GetToken(r) PROVE [Rail!TokenNext]_tokenVars
  BY <1>2 DEF GetToken, Rail!TokenNext
<1>3. ASSUME NEW r \in Requests, BurnToken(r) PROVE [Rail!TokenNext]_tokenVars
  BY <1>3 DEF BurnToken, Rail!TokenNext
<1>4. ASSUME NEW r \in Requests, CacheFails(r) PROVE [Rail!TokenNext]_tokenVars
  BY <1>4 DEF CacheFails, Rail!TokenNext
<1>5. ASSUME NEW r \in Requests, Preview(r) PROVE [Rail!TokenNext]_tokenVars
  <2>1. Fingerprint(r) \in Ops /\ Rail!Issue(r, Fingerprint(r))
    BY <1>5, FingerprintTyped DEF Preview
  <2> QED
    BY <2>1 DEF Rail!TokenNext
<1>6. ASSUME NEW r \in Requests, Crash(r) PROVE [Rail!TokenNext]_tokenVars
  BY <1>6 DEF Crash, Rail!TokenNext
<1>7. ASSUME NEW t \in Requests, TokenExpires(t) PROVE [Rail!TokenNext]_tokenVars
  BY <1>7 DEF TokenExpires, Rail!TokenNext
<1>8. ASSUME NEW r \in Requests, Faults(r) PROVE [Rail!TokenNext]_tokenVars
  BY <1>4, <1>6, <1>8
  DEF Faults, TouchFails, PreviewFails, WriteFails, AuditFails, CommitFails, Abort
<1>9. ASSUME NEW r \in Requests, Works(r) PROVE [Rail!TokenNext]_tokenVars
  BY <1>1, <1>2, <1>3, <1>5, <1>9
  DEF Works, Touch, CheckScopes, RefuseScopes, RateDenies, AuditDenied, AuditDryRun,
      AuditAttempt, WritePart, WriteReturns, AuditSuccess, AuditError, Commit, Abort
<1>10. CASE UNCHANGED vars
  BY <1>10 DEF vars
<1> QED
  BY <1>7, <1>8, <1>9, <1>10, NextCases DEF Receive

-----------------------------------------------------------------------------
(* Type correctness.  TypeOK is not inductive by itself: the fields of a   *)
(* call must be known to be there, and the counts stay in range only       *)
(* because no call makes more than Parts changes.                          *)
Bounded == \A r \in Requests : wrote[r] + durable[r] <= Parts

OutcomesTyped == /\ rows \in [Requests -> SUBSET Outcomes]
                 /\ trail \in [Requests -> SUBSET Outcomes]
                 /\ answer \in [Requests -> Answers]

CountsTyped == /\ wrote \in [Requests -> 0..Parts]
               /\ durable \in [Requests -> 0..Parts]
               /\ Bounded

PipelineType == Typed /\ Rail!TokenTypeOK /\ OutcomesTyped /\ CountsTyped

LEMMA PipelineTypeInit == Init => PipelineType
<1>1. Init => Rail!TokenTypeOK
  BY DEF Init, Rail!TokenInit, Rail!TokenTypeOK, Rail!Idle, Rail!CallRecord, Rail!Phase
<1> QED
  BY <1>1, PipelineAssumption
  DEF Init, PipelineType, Typed, Received, OutcomesTyped, CountsTyped, Bounded,
      Stages, Outcomes, Answers

LEMMA TypedStep ==
  ASSUME Typed, [Next]_vars
  PROVE  Typed'
<1> USE DEF Typed, Received, Goto, Stages
<1>1. ASSUME NEW r \in Requests, NEW cred \in Credentials, NEW tool \in Tools,
             NEW payload \in Payloads, NEW token \in Requests \cup {None},
             Receive(r, cred, tool, payload, token)
      PROVE  Typed'
  BY <1>1 DEF Receive, Call
<1>2. ASSUME NEW r \in Requests,
             Touch(r) \/ TouchFails(r) \/ CheckScopes(r) \/ RefuseScopes(r) \/
             RateAllows(r) \/ RateDenies(r) \/ AuditDenied(r) \/ GetToken(r) \/
             BurnToken(r) \/ CacheFails(r) \/ AuditDryRun(r) \/ Preview(r) \/
             PreviewFails(r) \/ AuditAttempt(r) \/ WritePart(r) \/
             WriteReturns(r) \/ WriteFails(r) \/ AuditSuccess(r) \/ AuditError(r)
             \/ AuditFails(r) \/ Commit(r) \/ CommitFails(r) \/ Crash(r)
      PROVE  Typed'
  BY <1>2
  DEF Touch, TouchFails, CheckScopes, RefuseScopes, RateAllows, RateDenies,
      AuditDenied, GetToken, BurnToken, CacheFails, AuditDryRun, Preview,
      PreviewFails, AuditAttempt, WritePart, WriteReturns, WriteFails, AuditSuccess,
      AuditError, AuditFails, Commit, CommitFails, Crash, Abort
<1>3. ASSUME NEW t \in Requests, TokenExpires(t) PROVE Typed'
  BY <1>3 DEF TokenExpires
<1>4. CASE UNCHANGED vars
  BY <1>4 DEF vars, tokenVars, dbVars
<1> QED
  BY NextCases, <1>1, <1>2, <1>3, <1>4 DEF Works, Faults

LEMMA OutcomesTypedStep ==
  ASSUME OutcomesTyped, [Next]_vars
  PROVE  OutcomesTyped'
<1> USE DEF OutcomesTyped, Outcomes, Answers, Tell, dbVars
<1>1. ASSUME NEW r \in Requests, NEW cred \in Credentials, NEW tool \in Tools,
             NEW payload \in Payloads, NEW token \in Requests \cup {None},
             Receive(r, cred, tool, payload, token)
      PROVE  OutcomesTyped'
  BY <1>1 DEF Receive
<1>2. ASSUME NEW r \in Requests, AuditDenied(r) PROVE OutcomesTyped'
  BY <1>2 DEF AuditDenied, Audit
<1>3. ASSUME NEW r \in Requests, AuditDryRun(r) PROVE OutcomesTyped'
  BY <1>3 DEF AuditDryRun, Audit
<1>4. ASSUME NEW r \in Requests,
             Preview(r) \/ PreviewFails(r)
      PROVE  OutcomesTyped'
  BY <1>4 DEF Preview, PreviewFails
<1>5. ASSUME NEW r \in Requests, AuditAttempt(r) PROVE OutcomesTyped'
  BY <1>5 DEF AuditAttempt, Audit
<1>6. ASSUME NEW r \in Requests, AuditSuccess(r) PROVE OutcomesTyped'
  BY <1>6 DEF AuditSuccess, Audit
<1>7. ASSUME NEW r \in Requests, AuditError(r) PROVE OutcomesTyped'
  BY <1>7 DEF AuditError, Audit
<1>8. ASSUME NEW r \in Requests, Commit(r) PROVE OutcomesTyped'
  BY <1>8 DEF Commit
<1>9. ASSUME NEW r \in Requests,
             TouchFails(r) \/ RefuseScopes(r) \/ AuditFails(r) \/ CommitFails(r)
             \/ Crash(r)
      PROVE  OutcomesTyped'
  BY <1>9
  DEF TouchFails, RefuseScopes, AuditFails, CommitFails, Crash, Abort, RollBack
<1>10. ASSUME NEW r \in Requests,
             Touch(r) \/ CheckScopes(r) \/ RateAllows(r) \/ RateDenies(r) \/
             GetToken(r) \/ BurnToken(r) \/ CacheFails(r) \/ WritePart(r) \/
             WriteReturns(r) \/ WriteFails(r)
      PROVE  OutcomesTyped'
  BY <1>10
  DEF Touch, CheckScopes, RateAllows, RateDenies, GetToken, BurnToken, CacheFails,
      WritePart, WriteReturns, WriteFails
<1>11. ASSUME NEW t \in Requests, TokenExpires(t) PROVE OutcomesTyped'
  BY <1>11 DEF TokenExpires
<1>12. CASE UNCHANGED vars
  BY <1>12 DEF vars, tokenVars, dbVars
<1> QED
  BY NextCases, <1>1, <1>2, <1>3, <1>4, <1>5, <1>6, <1>7, <1>8, <1>9, <1>10, <1>11,
     <1>12 DEF Works, Faults

LEMMA CountsTypedStep ==
  ASSUME CountsTyped, [Next]_vars
  PROVE  CountsTyped'
<1> USE PipelineAssumption
    DEF CountsTyped, Bounded, dbVars
<1>1. ASSUME NEW r \in Requests, NEW cred \in Credentials, NEW tool \in Tools,
             NEW payload \in Payloads, NEW token \in Requests \cup {None},
             Receive(r, cred, tool, payload, token)
      PROVE  CountsTyped'
  BY <1>1 DEF Receive
<1>2. ASSUME NEW r \in Requests, WritePart(r) PROVE CountsTyped'
  BY <1>2 DEF WritePart
<1>3. ASSUME NEW r \in Requests, WriteReturns(r) PROVE CountsTyped'
  BY <1>3 DEF WriteReturns, KeepBlock, UndoBlock
<1>4. ASSUME NEW r \in Requests, WriteFails(r) PROVE CountsTyped'
  BY <1>4 DEF WriteFails, UndoBlock
<1>5. ASSUME NEW r \in Requests, Commit(r) PROVE CountsTyped'
  BY <1>5 DEF Commit
<1>6. ASSUME NEW r \in Requests,
             TouchFails(r) \/ RefuseScopes(r) \/ AuditFails(r) \/ CommitFails(r)
             \/ Crash(r)
      PROVE  CountsTyped'
  BY <1>6
  DEF TouchFails, RefuseScopes, AuditFails, CommitFails, Crash, Abort, RollBack
<1>7. ASSUME NEW r \in Requests,
             Touch(r) \/ CheckScopes(r) \/ RateAllows(r) \/ RateDenies(r) \/
             AuditDenied(r) \/ GetToken(r) \/ BurnToken(r) \/ CacheFails(r) \/
             AuditDryRun(r) \/ Preview(r) \/ PreviewFails(r) \/ AuditAttempt(r)
             \/ AuditSuccess(r) \/ AuditError(r)
      PROVE  CountsTyped'
  BY <1>7
  DEF Touch, CheckScopes, RateAllows, RateDenies, AuditDenied, GetToken, BurnToken,
      CacheFails, AuditDryRun, Preview, PreviewFails, AuditAttempt, AuditSuccess,
      AuditError, Audit
<1>8. ASSUME NEW t \in Requests, TokenExpires(t) PROVE CountsTyped'
  BY <1>8 DEF TokenExpires
<1>9. CASE UNCHANGED vars
  BY <1>9 DEF vars, tokenVars, dbVars
<1> QED
  BY NextCases, <1>1, <1>2, <1>3, <1>4, <1>5, <1>6, <1>7, <1>8, <1>9 DEF Works,
     Faults

(* The rail of AuditedWrite and that of the proofs about ConfirmToken are  *)
(* the same instance under two names.                                      *)
LEMMA SameRail ==
  /\ RailProofs!TokenTypeOK <=> Rail!TokenTypeOK
  /\ RailProofs!TokenTypeOK' <=> Rail!TokenTypeOK'
  /\ RailProofs!TokenInit <=> Rail!TokenInit
  /\ [RailProofs!TokenNext]_tokenVars <=> [Rail!TokenNext]_tokenVars
<1>1. /\ RailProofs!TokenTypeOK <=> Rail!TokenTypeOK
      /\ RailProofs!TokenTypeOK' <=> Rail!TokenTypeOK'
  BY DEF RailProofs!TokenTypeOK, Rail!TokenTypeOK, RailProofs!CallRecord,
         Rail!CallRecord, RailProofs!Phase, Rail!Phase
<1>2. RailProofs!TokenInit <=> Rail!TokenInit
  BY DEF RailProofs!TokenInit, Rail!TokenInit, RailProofs!Idle, Rail!Idle
<1>3. [RailProofs!TokenNext]_tokenVars <=> [Rail!TokenNext]_tokenVars
  BY DEF RailProofs!TokenNext, Rail!TokenNext, RailProofs!Issue, Rail!Issue,
         RailProofs!Expire, Rail!Expire, RailProofs!Enter, Rail!Enter,
         RailProofs!Get, Rail!Get, RailProofs!Delete, Rail!Delete,
         RailProofs!Abandon, Rail!Abandon, RailProofs!Matches, Rail!Matches,
         RailProofs!Spent, Rail!Spent
<1> QED
  BY <1>1, <1>2, <1>3

LEMMA NoneApart == None \notin Requests /\ None \notin Ops
  BY PipelineAssumption DEF Ops

LEMMA RailTypeStep ==
  ASSUME Typed, Rail!TokenTypeOK, [Next]_vars
  PROVE  Rail!TokenTypeOK'
<1>1. RailProofs!TokenTypeOK /\ [RailProofs!TokenNext]_tokenVars
  BY RailStep, SameRail
<1>2. RailProofs!TokenTypeOK'
  BY <1>1, NoneApart, RailProofs!TokenTypeStep DEF tokenVars, RailProofs!tokenVars
<1> QED
  BY <1>2, SameRail

LEMMA PipelineTypeStep == PipelineType /\ [Next]_vars => PipelineType'
  BY TypedStep, RailTypeStep, OutcomesTypedStep, CountsTypedStep DEF PipelineType

LEMMA PipelineTypeInvariant == Spec => []PipelineType
  BY PipelineTypeInit, PipelineTypeStep, PTL DEF Spec

(* Every variable of the pipeline always has its type; in particular no    *)
(* call ever makes more than Parts changes.                                *)
THEOREM TypeCorrect == Spec => []TypeOK
<1>1. PipelineType => TypeOK
  BY DEF PipelineType, Typed, OutcomesTyped, CountsTyped, TypeOK
<1> QED
  BY <1>1, PipelineTypeInvariant, PTL

-----------------------------------------------------------------------------
(* The pipeline uses the rail as ConfirmToken describes it, so what is     *)
(* proved of ConfirmToken holds of the tokens of the pipeline.             *)
THEOREM RailRefined == Spec => UsesRail
<1>1. Init => Rail!TokenInit
  BY DEF Init
<1>2. PipelineType /\ [Next]_vars => [Rail!TokenNext]_tokenVars
  BY RailStep DEF PipelineType
<1> QED
  BY <1>1, <1>2, PipelineTypeInvariant, PTL
  DEF Spec, UsesRail, Rail!TokenSpec, tokenVars, Rail!tokenVars

-----------------------------------------------------------------------------
(* PreviewedFirst: a confirm-gated tool never writes without a preview.    *)
(* The argument follows a confirm token: it is issued for the call that    *)
(* previews (IssuedToPreview), which leaves a dry_run row before its       *)
(* client gets the token (PreviewJournal); the client of a later call      *)
(* presents a token it was given (TokenDelivered); that call hands its own *)
(* token and fingerprint to the rail (InStep), which must have confirmed   *)
(* them when the call starts to write (ConfirmedWrite).                    *)
Kept(r) == rows[r] \cup trail[r]

WriteStages == {"attempt", "writing", "ok", "failed"}

IssuedToPreview ==
    \A t \in Requests : issued[t] # None => /\ pc[t] # "idle"
                                            /\ issued[t] = Fingerprint(t)

PreviewJournal ==
    \A r \in Requests :
        /\ pc[r] = "dryrun" \/ answer[r] = "preview" => "dry_run" \in Kept(r)
        /\ answer[r] = "preview" => pc[r] \in {"commit", "done"}
        /\ pc[r] = "done" => rows[r] = {}

TokenDelivered ==
    \A r \in Requests : pc[r] # "idle" => req[r].token \in Delivered \cup {None}

InStep ==
    \A r \in Requests :
        /\ pc[r] \in {"idle", "touch", "scopes", "rate", "denied"} => call[r].phase = "idle"
        /\ pc[r] = "token" => call[r].phase = "get"
        /\ pc[r] = "burn" => call[r].phase = "delete"
        /\ call[r].phase # "idle" => /\ pc[r] # "idle"
                                    /\ call[r].token = req[r].token
                                    /\ call[r].fp = Fingerprint(r)

HasWritten(r) == \/ pc[r] \in WriteStages
                 \/ "attempt" \in Kept(r)
                 \/ wrote[r] + durable[r] > 0

ConfirmedWrite ==
    \A r \in Requests : HasWritten(r) =>
        /\ pc[r] \notin {"idle", "touch", "scopes", "rate", "denied", "token", "burn",
                         "preview", "dryrun"}
        /\ req[r].tool \in Gated => call[r].phase = "confirmed"

PreviewInv == /\ PipelineType
              /\ RailProofs!TokenInv
              /\ IssuedToPreview
              /\ PreviewJournal
              /\ TokenDelivered
              /\ InStep
              /\ ConfirmedWrite

LEMMA RailInvStep ==
  ASSUME PipelineType, RailProofs!TokenInv, [Next]_vars
  PROVE  RailProofs!TokenInv'
<1>1. [RailProofs!TokenNext]_tokenVars
  BY RailStep, SameRail DEF PipelineType
<1> QED
  BY <1>1, NoneApart, RailProofs!TokenInvStep DEF tokenVars, RailProofs!tokenVars

LEMMA IssuedToPreviewStep ==
  ASSUME Typed, Rail!TokenTypeOK, IssuedToPreview, [Next]_vars
  PROVE  IssuedToPreview'
<1> USE DEF IssuedToPreview, Fingerprint, Typed, Received, Goto, tokenVars
<1>1. ASSUME NEW r \in Requests, NEW cred \in Credentials, NEW tool \in Tools,
             NEW payload \in Payloads, NEW token \in Requests \cup {None},
             Receive(r, cred, tool, payload, token)
      PROVE  IssuedToPreview'
  BY <1>1 DEF Receive
<1>2. ASSUME NEW r \in Requests, Preview(r) PROVE IssuedToPreview'
  BY <1>2 DEF Preview, Rail!Issue, Rail!TokenTypeOK
<1>3. ASSUME NEW r \in Requests,
             Touch(r) \/ TouchFails(r) \/ CheckScopes(r) \/ RefuseScopes(r) \/
             RateAllows(r) \/ RateDenies(r) \/ AuditDenied(r) \/ GetToken(r) \/
             BurnToken(r) \/ CacheFails(r) \/ AuditDryRun(r) \/ PreviewFails(r)
             \/ AuditAttempt(r) \/ WritePart(r) \/ WriteReturns(r) \/
             WriteFails(r) \/ AuditSuccess(r) \/ AuditError(r) \/ AuditFails(r)
             \/ Commit(r) \/ CommitFails(r) \/ Crash(r)
      PROVE  IssuedToPreview'
  BY <1>3
  DEF Touch, TouchFails, CheckScopes, RefuseScopes, RateAllows, RateDenies,
      AuditDenied, GetToken, BurnToken, CacheFails, AuditDryRun, PreviewFails,
      AuditAttempt, WritePart, WriteReturns, WriteFails, AuditSuccess, AuditError,
      AuditFails, Commit, CommitFails, Crash, Abort, Rail!Enter, Rail!Get,
      Rail!Delete, Rail!Abandon
<1>4. ASSUME NEW t \in Requests, TokenExpires(t) PROVE IssuedToPreview'
  BY <1>4 DEF TokenExpires, Rail!Expire
<1>5. CASE UNCHANGED vars
  BY <1>5 DEF vars, tokenVars, dbVars
<1> QED
  BY NextCases, <1>1, <1>2, <1>3, <1>4, <1>5 DEF Works, Faults

LEMMA PreviewJournalStep ==
  ASSUME Typed, OutcomesTyped, PreviewJournal, [Next]_vars
  PROVE  PreviewJournal'
<1> USE DEF PreviewJournal, Kept, Typed, OutcomesTyped, Goto, Tell, dbVars
<1>1. ASSUME NEW r \in Requests, NEW cred \in Credentials, NEW tool \in Tools,
             NEW payload \in Payloads, NEW token \in Requests \cup {None},
             Receive(r, cred, tool, payload, token)
      PROVE  PreviewJournal'
  BY <1>1 DEF Receive
<1>2. ASSUME NEW r \in Requests, AuditDenied(r) PROVE PreviewJournal'
  BY <1>2 DEF AuditDenied, Audit
<1>3. ASSUME NEW r \in Requests, AuditDryRun(r) PROVE PreviewJournal'
  BY <1>3 DEF AuditDryRun, Audit
<1>4. ASSUME NEW r \in Requests, Preview(r) PROVE PreviewJournal'
  BY <1>4 DEF Preview
<1>5. ASSUME NEW r \in Requests, PreviewFails(r) PROVE PreviewJournal'
  BY <1>5 DEF PreviewFails
<1>6. ASSUME NEW r \in Requests, CacheFails(r) PROVE PreviewJournal'
  BY <1>6 DEF CacheFails
<1>7. ASSUME NEW r \in Requests, AuditAttempt(r) PROVE PreviewJournal'
  BY <1>7 DEF AuditAttempt, Audit
<1>8. ASSUME NEW r \in Requests,
             AuditSuccess(r) \/ AuditError(r)
      PROVE  PreviewJournal'
  BY <1>8 DEF AuditSuccess, AuditError, Audit
<1>9. ASSUME NEW r \in Requests, Commit(r) PROVE PreviewJournal'
  BY <1>9 DEF Commit
<1>10. ASSUME NEW r \in Requests,
             TouchFails(r) \/ RefuseScopes(r) \/ AuditFails(r) \/ CommitFails(r)
             \/ Crash(r)
      PROVE  PreviewJournal'
  BY <1>10
  DEF TouchFails, RefuseScopes, AuditFails, CommitFails, Crash, Abort, RollBack
<1>11. ASSUME NEW r \in Requests,
             Touch(r) \/ CheckScopes(r) \/ RateAllows(r) \/ RateDenies(r) \/
             GetToken(r) \/ BurnToken(r) \/ WritePart(r) \/ WriteReturns(r) \/
             WriteFails(r)
      PROVE  PreviewJournal'
  BY <1>11
  DEF Touch, CheckScopes, RateAllows, RateDenies, GetToken, BurnToken, WritePart,
      WriteReturns, WriteFails
<1>12. ASSUME NEW t \in Requests, TokenExpires(t) PROVE PreviewJournal'
  BY <1>12 DEF TokenExpires
<1>13. CASE UNCHANGED vars
  BY <1>13 DEF vars, tokenVars, dbVars
<1> QED
  BY NextCases, <1>1, <1>2, <1>3, <1>4, <1>5, <1>6, <1>7, <1>8, <1>9, <1>10, <1>11,
     <1>12, <1>13 DEF Works, Faults

LEMMA TokenDeliveredStep ==
  ASSUME Typed, OutcomesTyped, TokenDelivered, [Next]_vars
  PROVE  TokenDelivered'
<1> USE DEF TokenDelivered, Delivered, Typed, OutcomesTyped, Received, Goto, Tell
<1>1. ASSUME NEW r \in Requests, NEW cred \in Credentials, NEW tool \in Tools,
             NEW payload \in Payloads, NEW token \in Requests \cup {None},
             Receive(r, cred, tool, payload, token)
      PROVE  TokenDelivered'
  BY <1>1 DEF Receive, Call
<1>2. ASSUME NEW r \in Requests,
             Preview(r) \/ PreviewFails(r)
      PROVE  TokenDelivered'
  BY <1>2 DEF Preview, PreviewFails
<1>3. ASSUME NEW r \in Requests, Commit(r) PROVE TokenDelivered'
  BY <1>3 DEF Commit
<1>4. ASSUME NEW r \in Requests,
             TouchFails(r) \/ RefuseScopes(r) \/ AuditFails(r) \/ CommitFails(r)
             \/ Crash(r)
      PROVE  TokenDelivered'
  BY <1>4 DEF TouchFails, RefuseScopes, AuditFails, CommitFails, Crash, Abort
<1>5. ASSUME NEW r \in Requests,
             Touch(r) \/ CheckScopes(r) \/ RateAllows(r) \/ RateDenies(r) \/
             AuditDenied(r) \/ GetToken(r) \/ BurnToken(r) \/ CacheFails(r) \/
             AuditDryRun(r) \/ AuditAttempt(r) \/ WritePart(r) \/ WriteReturns(r)
             \/ WriteFails(r) \/ AuditSuccess(r) \/ AuditError(r)
      PROVE  TokenDelivered'
  BY <1>5
  DEF Touch, CheckScopes, RateAllows, RateDenies, AuditDenied, GetToken, BurnToken,
      CacheFails, AuditDryRun, AuditAttempt, WritePart, WriteReturns, WriteFails,
      AuditSuccess, AuditError
<1>6. ASSUME NEW t \in Requests, TokenExpires(t) PROVE TokenDelivered'
  BY <1>6 DEF TokenExpires
<1>7. CASE UNCHANGED vars
  BY <1>7 DEF vars, tokenVars, dbVars
<1> QED
  BY NextCases, <1>1, <1>2, <1>3, <1>4, <1>5, <1>6, <1>7 DEF Works, Faults

LEMMA InStepStep ==
  ASSUME Typed, Rail!TokenTypeOK, InStep, [Next]_vars
  PROVE  InStep'
<1> USE DEF InStep, Fingerprint, Typed, Received, Rail!TokenTypeOK, Rail!CallRecord,
            Goto, tokenVars
<1>1. ASSUME NEW r \in Requests, NEW cred \in Credentials, NEW tool \in Tools,
             NEW payload \in Payloads, NEW token \in Requests \cup {None},
             Receive(r, cred, tool, payload, token)
      PROVE  InStep'
  BY <1>1 DEF Receive
<1>2. ASSUME NEW r \in Requests, RateAllows(r) PROVE InStep'
  BY <1>2 DEF RateAllows, Rail!Enter
<1>3. ASSUME NEW r \in Requests, GetToken(r) PROVE InStep'
  BY <1>3 DEF GetToken, Rail!Get
<1>4. ASSUME NEW r \in Requests, BurnToken(r) PROVE InStep'
  BY <1>4 DEF BurnToken, Rail!Delete
<1>5. ASSUME NEW r \in Requests, CacheFails(r) PROVE InStep'
  BY <1>5 DEF CacheFails, Rail!Abandon
<1>6. ASSUME NEW r \in Requests, Crash(r) PROVE InStep'
  BY <1>6 DEF Crash, Rail!Abandon
<1>7. ASSUME NEW r \in Requests,
             Touch(r) \/ TouchFails(r) \/ CheckScopes(r) \/ RefuseScopes(r) \/
             RateDenies(r) \/ AuditDenied(r) \/ AuditDryRun(r) \/ Preview(r) \/
             PreviewFails(r) \/ AuditAttempt(r) \/ WritePart(r) \/
             WriteReturns(r) \/ WriteFails(r) \/ AuditSuccess(r) \/ AuditError(r)
             \/ AuditFails(r) \/ Commit(r) \/ CommitFails(r)
      PROVE  InStep'
  BY <1>7
  DEF Touch, TouchFails, CheckScopes, RefuseScopes, RateDenies, AuditDenied,
      AuditDryRun, Preview, PreviewFails, AuditAttempt, WritePart, WriteReturns,
      WriteFails, AuditSuccess, AuditError, AuditFails, Commit, CommitFails, Abort,
      Rail!Issue
<1>8. ASSUME NEW t \in Requests, TokenExpires(t) PROVE InStep'
  BY <1>8 DEF TokenExpires, Rail!Expire
<1>9. CASE UNCHANGED vars
  BY <1>9 DEF vars, tokenVars, dbVars
<1> QED
  BY NextCases, <1>1, <1>2, <1>3, <1>4, <1>5, <1>6, <1>7, <1>8, <1>9 DEF Works,
     Faults

LEMMA ConfirmedWriteStep ==
  ASSUME Typed, Rail!TokenTypeOK, OutcomesTyped, CountsTyped, InStep,
         ConfirmedWrite, [Next]_vars
  PROVE  ConfirmedWrite'
<1> USE PipelineAssumption
    DEF ConfirmedWrite, HasWritten, WriteStages, Kept, InStep, Typed,
        Rail!TokenTypeOK, Rail!CallRecord, OutcomesTyped, CountsTyped, Goto,
        tokenVars, dbVars
<1>1. ASSUME NEW r \in Requests, NEW cred \in Credentials, NEW tool \in Tools,
             NEW payload \in Payloads, NEW token \in Requests \cup {None},
             Receive(r, cred, tool, payload, token)
      PROVE  ConfirmedWrite'
  BY <1>1 DEF Receive
<1>2. ASSUME NEW r \in Requests, RateAllows(r) PROVE ConfirmedWrite'
  BY <1>2 DEF RateAllows, Rail!Enter
<1>3. ASSUME NEW r \in Requests, AuditDenied(r) PROVE ConfirmedWrite'
  BY <1>3 DEF AuditDenied, Audit
<1>4. ASSUME NEW r \in Requests, GetToken(r) PROVE ConfirmedWrite'
  BY <1>4 DEF GetToken, Rail!Get
<1>5. ASSUME NEW r \in Requests, BurnToken(r) PROVE ConfirmedWrite'
  BY <1>5 DEF BurnToken, Rail!Delete
<1>6. ASSUME NEW r \in Requests, CacheFails(r) PROVE ConfirmedWrite'
  BY <1>6 DEF CacheFails, Rail!Abandon
<1>7. ASSUME NEW r \in Requests, AuditDryRun(r) PROVE ConfirmedWrite'
  BY <1>7 DEF AuditDryRun, Audit
<1>8. ASSUME NEW r \in Requests, Preview(r) PROVE ConfirmedWrite'
  BY <1>8 DEF Preview, Rail!Issue
<1>9. ASSUME NEW r \in Requests, AuditAttempt(r) PROVE ConfirmedWrite'
  BY <1>9 DEF AuditAttempt, Audit
<1>10. ASSUME NEW r \in Requests, WritePart(r) PROVE ConfirmedWrite'
  BY <1>10 DEF WritePart
<1>11. ASSUME NEW r \in Requests, WriteReturns(r) PROVE ConfirmedWrite'
  BY <1>11 DEF WriteReturns, KeepBlock, UndoBlock
<1>12. ASSUME NEW r \in Requests, WriteFails(r) PROVE ConfirmedWrite'
  BY <1>12 DEF WriteFails, UndoBlock
<1>13. ASSUME NEW r \in Requests, AuditSuccess(r) PROVE ConfirmedWrite'
  BY <1>13 DEF AuditSuccess, Audit
<1>14. ASSUME NEW r \in Requests, AuditError(r) PROVE ConfirmedWrite'
  BY <1>14 DEF AuditError, Audit
<1>15. ASSUME NEW r \in Requests, Commit(r) PROVE ConfirmedWrite'
  BY <1>15 DEF Commit
<1>16. ASSUME NEW r \in Requests, Crash(r) PROVE ConfirmedWrite'
  BY <1>16 DEF Crash, RollBack, Rail!Abandon
<1>17. ASSUME NEW r \in Requests,
             TouchFails(r) \/ RefuseScopes(r) \/ AuditFails(r) \/ CommitFails(r)
      PROVE  ConfirmedWrite'
  BY <1>17 DEF TouchFails, RefuseScopes, AuditFails, CommitFails, Abort, RollBack
<1>18. ASSUME NEW r \in Requests,
             Touch(r) \/ CheckScopes(r) \/ RateDenies(r) \/ PreviewFails(r)
      PROVE  ConfirmedWrite'
  BY <1>18 DEF Touch, CheckScopes, RateDenies, PreviewFails
<1>19. ASSUME NEW t \in Requests, TokenExpires(t) PROVE ConfirmedWrite'
  BY <1>19 DEF TokenExpires, Rail!Expire
<1>20. CASE UNCHANGED vars
  BY <1>20 DEF vars, tokenVars, dbVars
<1> QED
  BY NextCases, <1>1, <1>2, <1>3, <1>4, <1>5, <1>6, <1>7, <1>8, <1>9, <1>10, <1>11,
     <1>12, <1>13, <1>14, <1>15, <1>16, <1>17, <1>18, <1>19, <1>20 DEF Works, Faults

LEMMA PreviewInvInit == Init => PreviewInv
<1> SUFFICES ASSUME Init PROVE PreviewInv
  OBVIOUS
<1>1. PipelineType
  BY PipelineTypeInit
<1>2. RailProofs!TokenInv
  BY SameRail, NoneApart, RailProofs!TokenInvInit DEF Init
<1>3. IssuedToPreview /\ InStep
  BY DEF Init, Rail!TokenInit, Rail!Idle, IssuedToPreview, InStep
<1>4. PreviewJournal /\ TokenDelivered /\ ConfirmedWrite
  BY DEF Init, PreviewJournal, TokenDelivered, ConfirmedWrite, HasWritten,
         WriteStages, Kept
<1> QED
  BY <1>1, <1>2, <1>3, <1>4 DEF PreviewInv

LEMMA PreviewInvStep == PreviewInv /\ [Next]_vars => PreviewInv'
<1> SUFFICES ASSUME PreviewInv, [Next]_vars PROVE PreviewInv'
  OBVIOUS
<1>1. PipelineType' /\ RailProofs!TokenInv'
  BY PipelineTypeStep, RailInvStep DEF PreviewInv
<1>2. IssuedToPreview' /\ InStep'
  BY IssuedToPreviewStep, InStepStep DEF PreviewInv, PipelineType
<1>3. PreviewJournal' /\ TokenDelivered' /\ ConfirmedWrite'
  BY PreviewJournalStep, TokenDeliveredStep, ConfirmedWriteStep
  DEF PreviewInv, PipelineType
<1> QED
  BY <1>1, <1>2, <1>3 DEF PreviewInv

LEMMA PreviewInvariant == Spec => []PreviewInv
  BY PreviewInvInit, PreviewInvStep, PTL DEF Spec

(* What the rail says of a confirmed call: its token was issued for its    *)
(* fingerprint.                                                            *)
LEMMA ConfirmedMatches ==
  ASSUME PreviewInv, NEW r \in Requests, call[r].phase = "confirmed"
  PROVE  /\ req[r].token \in Requests
         /\ issued[req[r].token] = Fingerprint(r)
         /\ Fingerprint(r) # None
<1>1. /\ call[r].token \in Requests
      /\ issued[call[r].token] = call[r].fp
      /\ call[r].fp \in Ops
  BY DEF PreviewInv, RailProofs!TokenInv, RailProofs!CallsMatch, RailProofs!Matched,
         RailProofs!ArgsGiven
<1>2. call[r].token = req[r].token /\ call[r].fp = Fingerprint(r)
  BY DEF PreviewInv, InStep
<1> QED
  BY <1>1, <1>2, NoneApart

(* A confirm-gated tool never writes, nor tries to, unless the audit trail *)
(* has the dry run of the same user, tool and payload, whatever the        *)
(* interleaving and whether or not ATOMIC_REQUESTS is set.                 *)
THEOREM PreviewedFirstHolds == Spec => []PreviewedFirst
<1>1. ASSUME PreviewInv, NEW r \in Requests, req[r].tool \in Gated,
             durable[r] > 0 \/ "attempt" \in trail[r]
      PROVE  LET p == req[r].token
             IN  /\ p \in Requests
                 /\ "dry_run" \in trail[p]
                 /\ req[p].tool = req[r].tool
                 /\ req[p].payload = req[r].payload
                 /\ Owner[req[p].cred] = Owner[req[r].cred]
  <2> DEFINE p == req[r].token
  <2>1. HasWritten(r)
    BY <1>1 DEF PreviewInv, PipelineType, CountsTyped, HasWritten, Kept
  <2>2. pc[r] # "idle" /\ call[r].phase = "confirmed"
    BY <1>1, <2>1 DEF PreviewInv, ConfirmedWrite
  <2>3. p \in Requests /\ issued[p] = Fingerprint(r) /\ issued[p] # None
    BY <1>1, <2>2, ConfirmedMatches
  <2>4. pc[p] = "done" /\ answer[p] = "preview"
    BY <1>1, <2>2, <2>3, NoneApart DEF PreviewInv, TokenDelivered, Delivered
  <2>5. "dry_run" \in trail[p]
    BY <1>1, <2>3, <2>4 DEF PreviewInv, PreviewJournal, Kept
  <2>6. Fingerprint(p) = Fingerprint(r)
    BY <1>1, <2>3 DEF PreviewInv, IssuedToPreview
  <2> QED
    BY <2>3, <2>5, <2>6 DEF Fingerprint
<1>2. PreviewInv => PreviewedFirst
  BY <1>1 DEF PreviewedFirst
<1> QED
  BY <1>2, PreviewInvariant, PTL

-----------------------------------------------------------------------------
(* IntentOnRecord and OutcomeTrue: what the audit trail says against what  *)
(* is stored.  Neither is inductive: the trail is ahead of the changes in  *)
(* one mode and commits with them in the other, so the invariant speaks of *)
(* the uncommitted rows and changes too, stage by stage.                   *)
NotWritten == {"idle", "touch", "scopes", "rate", "denied", "token", "burn",
               "preview", "dryrun", "attempt"}

Failures == {"error", "dry_run", "denied"}

\* Before its write a call has changed nothing and recorded no outcome of it.
NothingYet ==
    \A r \in Requests :
        /\ pc[r] \in NotWritten =>
             /\ wrote[r] + durable[r] = 0
             /\ Kept(r) \cap {"attempt", "success", "error"} = {}
        /\ pc[r] \in {"writing", "ok", "failed"} =>
             Kept(r) \cap ({"success"} \cup Failures) = {}
        /\ pc[r] \in NotWritten \ {"dryrun"} => Kept(r) = {}

\* After its write a call knows what it changed.
WriteKnown ==
    \A r \in Requests :
        /\ pc[r] = "ok" => /\ req[r].tool \in Lenient \/ wrote[r] + durable[r] = Parts
                           /\ Atomic(r) \/ wrote[r] = 0
        /\ pc[r] \in {"writing", "failed"} /\ req[r].tool \notin External =>
             durable[r] = 0
        /\ pc[r] = "failed" => wrote[r] = 0
        /\ pc[r] \in {"done", "crashed"} => wrote[r] = 0 /\ rows[r] = {}

\* The rows, committed or not, agree with the changes, committed or not.
RowsTrue ==
    \A r \in Requests :
        /\ req[r].tool \notin Lenient =>
             /\ "success" \in trail[r] => durable[r] = Parts
             /\ "success" \in rows[r] => wrote[r] + durable[r] = Parts
        /\ Kept(r) \cap Failures # {} /\ req[r].tool \notin External =>
             wrote[r] + durable[r] = 0

OutcomeInv == PipelineType /\ NothingYet /\ WriteKnown /\ RowsTrue

LEMMA NothingYetStep ==
  ASSUME PipelineType, NothingYet, [Next]_vars
  PROVE  NothingYet'
<1> USE PipelineAssumption
    DEF PipelineType, NothingYet, NotWritten, Failures, Kept, Typed, Received,
        OutcomesTyped, CountsTyped, Bounded, Goto, Tell, dbVars
<1>1. ASSUME NEW r \in Requests, NEW cred \in Credentials, NEW tool \in Tools,
             NEW payload \in Payloads, NEW token \in Requests \cup {None},
             Receive(r, cred, tool, payload, token)
      PROVE  NothingYet'
  BY <1>1 DEF Receive
<1>2. ASSUME NEW r \in Requests, AuditDenied(r) PROVE NothingYet'
  BY <1>2 DEF AuditDenied, Audit
<1>3. ASSUME NEW r \in Requests, AuditDryRun(r) PROVE NothingYet'
  BY <1>3 DEF AuditDryRun, Audit
<1>4. ASSUME NEW r \in Requests, AuditAttempt(r) PROVE NothingYet'
  BY <1>4 DEF AuditAttempt, Audit
<1>5. ASSUME NEW r \in Requests, WritePart(r) PROVE NothingYet'
  BY <1>5 DEF WritePart
<1>6. ASSUME NEW r \in Requests, WriteReturns(r) PROVE NothingYet'
  BY <1>6 DEF WriteReturns, KeepBlock, UndoBlock
<1>7. ASSUME NEW r \in Requests, WriteFails(r) PROVE NothingYet'
  BY <1>7 DEF WriteFails, UndoBlock
<1>8. ASSUME NEW r \in Requests, AuditSuccess(r) PROVE NothingYet'
  BY <1>8 DEF AuditSuccess, Audit
<1>9. ASSUME NEW r \in Requests, AuditError(r) PROVE NothingYet'
  BY <1>9 DEF AuditError, Audit
<1>10. ASSUME NEW r \in Requests, Commit(r) PROVE NothingYet'
  BY <1>10 DEF Commit
<1>11. ASSUME NEW r \in Requests, Crash(r) PROVE NothingYet'
  BY <1>11 DEF Crash, RollBack
<1>12. ASSUME NEW r \in Requests, TouchFails(r) PROVE NothingYet'
  BY <1>12 DEF TouchFails, Abort, RollBack
<1>13. ASSUME NEW r \in Requests, RefuseScopes(r) PROVE NothingYet'
  BY <1>13 DEF RefuseScopes, Abort, RollBack
<1>14. ASSUME NEW r \in Requests, AuditFails(r) PROVE NothingYet'
  BY <1>14 DEF AuditFails, Abort, RollBack
<1>15. ASSUME NEW r \in Requests, CommitFails(r) PROVE NothingYet'
  BY <1>15 DEF CommitFails, Abort, RollBack
<1>16. ASSUME NEW r \in Requests,
             Touch(r) \/ CheckScopes(r) \/ RateAllows(r) \/ RateDenies(r) \/
             GetToken(r) \/ BurnToken(r)
      PROVE  NothingYet'
  <2>1. /\ pc[r] \in NotWritten \ {"dryrun"}
        /\ pc'[r] \in NotWritten
        /\ \A s \in Requests \ {r} : pc'[s] = pc[s]
    BY <1>16
    DEF Touch, CheckScopes, RateAllows, RateDenies, GetToken, BurnToken
  <2>2. UNCHANGED dbVars
    BY <1>16 DEF Touch, CheckScopes, RateAllows, RateDenies, GetToken, BurnToken
  <2> QED
    BY <2>1, <2>2
<1>a. ASSUME NEW r \in Requests, CacheFails(r) \/ Preview(r) \/ PreviewFails(r)
      PROVE  NothingYet'
  BY <1>a DEF CacheFails, Preview, PreviewFails
<1>17. ASSUME NEW t \in Requests, TokenExpires(t) PROVE NothingYet'
  BY <1>17 DEF TokenExpires
<1>18. CASE UNCHANGED vars
  BY <1>18 DEF vars, tokenVars, dbVars
<1> QED
  BY NextCases, <1>1, <1>2, <1>3, <1>4, <1>5, <1>6, <1>7, <1>8, <1>9, <1>10, <1>11,
     <1>12, <1>13, <1>14, <1>15, <1>16, <1>17, <1>18, <1>a DEF Works, Faults

LEMMA WriteKnownStep ==
  ASSUME PipelineType, NothingYet, WriteKnown, [Next]_vars
  PROVE  WriteKnown'
<1> USE PipelineAssumption
    DEF PipelineType, NothingYet, WriteKnown, NotWritten, Failures, Kept, Atomic,
        Typed, Received, OutcomesTyped, CountsTyped, Bounded, Goto, Tell, dbVars
<1>1. ASSUME NEW r \in Requests, NEW cred \in Credentials, NEW tool \in Tools,
             NEW payload \in Payloads, NEW token \in Requests \cup {None},
             Receive(r, cred, tool, payload, token)
      PROVE  WriteKnown'
  BY <1>1 DEF Receive
<1>2. ASSUME NEW r \in Requests, AuditDenied(r) PROVE WriteKnown'
  BY <1>2 DEF AuditDenied, Audit
<1>3. ASSUME NEW r \in Requests, AuditDryRun(r) PROVE WriteKnown'
  BY <1>3 DEF AuditDryRun, Audit
<1>4. ASSUME NEW r \in Requests, AuditAttempt(r) PROVE WriteKnown'
  BY <1>4 DEF AuditAttempt, Audit
<1>5. ASSUME NEW r \in Requests, WritePart(r) PROVE WriteKnown'
  BY <1>5 DEF WritePart
<1>6. ASSUME NEW r \in Requests, WriteReturns(r) PROVE WriteKnown'
  BY <1>6 DEF WriteReturns, KeepBlock, UndoBlock
<1>7. ASSUME NEW r \in Requests, WriteFails(r) PROVE WriteKnown'
  BY <1>7 DEF WriteFails, UndoBlock
<1>8. ASSUME NEW r \in Requests, AuditSuccess(r) PROVE WriteKnown'
  BY <1>8 DEF AuditSuccess, Audit
<1>9. ASSUME NEW r \in Requests, AuditError(r) PROVE WriteKnown'
  BY <1>9 DEF AuditError, Audit
<1>10. ASSUME NEW r \in Requests, Commit(r) PROVE WriteKnown'
  BY <1>10 DEF Commit
<1>11. ASSUME NEW r \in Requests, Crash(r) PROVE WriteKnown'
  BY <1>11 DEF Crash, RollBack
<1>12. ASSUME NEW r \in Requests,
             TouchFails(r) \/ RefuseScopes(r) \/ AuditFails(r) \/ CommitFails(r)
      PROVE  WriteKnown'
  BY <1>12 DEF TouchFails, RefuseScopes, AuditFails, CommitFails, Abort, RollBack
<1>13. ASSUME NEW r \in Requests, RateAllows(r) PROVE WriteKnown'
  BY <1>13 DEF RateAllows
<1>14. ASSUME NEW r \in Requests, GetToken(r) PROVE WriteKnown'
  BY <1>14 DEF GetToken
<1>15. ASSUME NEW r \in Requests, BurnToken(r) PROVE WriteKnown'
  BY <1>15 DEF BurnToken
<1>16. ASSUME NEW r \in Requests, CacheFails(r) PROVE WriteKnown'
  BY <1>16 DEF CacheFails
<1>17. ASSUME NEW r \in Requests, Preview(r) PROVE WriteKnown'
  BY <1>17 DEF Preview
<1>18. ASSUME NEW r \in Requests, PreviewFails(r) PROVE WriteKnown'
  BY <1>18 DEF PreviewFails
<1>19. ASSUME NEW r \in Requests,
             Touch(r) \/ CheckScopes(r) \/ RateDenies(r)
      PROVE  WriteKnown'
  <2>1. /\ pc'[r] \in {"scopes", "rate", "denied"}
        /\ \A s \in Requests \ {r} : pc'[s] = pc[s]
    BY <1>19 DEF Touch, CheckScopes, RateDenies
  <2>2. UNCHANGED <<req, dbVars>>
    BY <1>19 DEF Touch, CheckScopes, RateDenies
  <2> QED
    BY <2>1, <2>2
<1>20. ASSUME NEW t \in Requests, TokenExpires(t) PROVE WriteKnown'
  BY <1>20 DEF TokenExpires
<1>21. CASE UNCHANGED vars
  BY <1>21 DEF vars, tokenVars, dbVars
<1> QED
  BY NextCases, <1>1, <1>2, <1>3, <1>4, <1>5, <1>6, <1>7, <1>8, <1>9, <1>10, <1>11,
     <1>12, <1>13, <1>14, <1>15, <1>16, <1>17, <1>18, <1>19, <1>20, <1>21 DEF Works,
     Faults

LEMMA RowsTrueStep ==
  ASSUME PipelineType, NothingYet, WriteKnown, RowsTrue, [Next]_vars
  PROVE  RowsTrue'
<1> USE PipelineAssumption
    DEF PipelineType, NothingYet, WriteKnown, RowsTrue, NotWritten, Failures, Kept,
        Typed, Received, OutcomesTyped, CountsTyped, Bounded, Goto, Tell, dbVars
<1>1. ASSUME NEW r \in Requests, NEW cred \in Credentials, NEW tool \in Tools,
             NEW payload \in Payloads, NEW token \in Requests \cup {None},
             Receive(r, cred, tool, payload, token)
      PROVE  RowsTrue'
  BY <1>1 DEF Receive
<1>2. ASSUME NEW r \in Requests, AuditDenied(r) PROVE RowsTrue'
  <2>1. CASE Atomic(r)
    BY <1>2, <2>1 DEF AuditDenied, Audit
  <2>2. CASE ~ Atomic(r)
    BY <1>2, <2>2 DEF AuditDenied, Audit
  <2> QED
    BY <2>1, <2>2
<1>3. ASSUME NEW r \in Requests, AuditDryRun(r) PROVE RowsTrue'
  <2>1. wrote[r] + durable[r] = 0 /\ "success" \notin rows[r] \cup trail[r]
    BY <1>3 DEF AuditDryRun
  <2>2. UNCHANGED <<wrote, durable, req>>
    BY <1>3 DEF AuditDryRun
  <2>3. /\ "success" \notin rows'[r] \cup trail'[r]
        /\ \A s \in Requests \ {r} : rows'[s] = rows[s] /\ trail'[s] = trail[s]
    BY <1>3, <2>1 DEF AuditDryRun, Audit
  <2> QED
    BY <2>1, <2>2, <2>3
<1>4. ASSUME NEW r \in Requests, AuditAttempt(r) PROVE RowsTrue'
  <2>1. wrote[r] + durable[r] = 0 /\ "success" \notin rows[r] \cup trail[r]
    BY <1>4 DEF AuditAttempt
  <2>2. UNCHANGED <<wrote, durable, req>>
    BY <1>4 DEF AuditAttempt
  <2>3. /\ "success" \notin rows'[r] \cup trail'[r]
        /\ \A s \in Requests \ {r} : rows'[s] = rows[s] /\ trail'[s] = trail[s]
    BY <1>4, <2>1 DEF AuditAttempt, Audit
  <2> QED
    BY <2>1, <2>2, <2>3
<1>5. ASSUME NEW r \in Requests, WritePart(r) PROVE RowsTrue'
  BY <1>5 DEF WritePart
<1>6. ASSUME NEW r \in Requests, WriteReturns(r) PROVE RowsTrue'
  BY <1>6 DEF WriteReturns, KeepBlock, UndoBlock
<1>7. ASSUME NEW r \in Requests, WriteFails(r) PROVE RowsTrue'
  BY <1>7 DEF WriteFails, UndoBlock
<1>8. ASSUME NEW r \in Requests, AuditSuccess(r) PROVE RowsTrue'
  <2>1. /\ pc[r] = "ok"
        /\ UNCHANGED <<wrote, durable, req>>
    BY <1>8 DEF AuditSuccess
  <2>2. /\ rows'[r] \cup trail'[r] = rows[r] \cup trail[r] \cup {"success"}
        /\ \A s \in Requests \ {r} : rows'[s] = rows[s] /\ trail'[s] = trail[s]
    BY <1>8 DEF AuditSuccess, Audit
  <2>3. /\ wrote[r] + durable[r] = Parts \/ req[r].tool \in Lenient
        /\ "success" \in trail'[r] => wrote[r] = 0
    BY <1>8, <2>1 DEF AuditSuccess, Audit, Atomic
  <2>4. Kept(r) \cap Failures = {}
    BY <2>1
  <2>5. wrote[r] \in Nat /\ durable[r] \in Nat
    OBVIOUS
  <2>6. ASSUME NEW s \in Requests, s # r
        PROVE  /\ req'[s] = req[s] /\ wrote'[s] = wrote[s] /\ durable'[s] = durable[s]
               /\ rows'[s] = rows[s] /\ trail'[s] = trail[s]
    BY <2>1, <2>2, <2>6
  <2>7. /\ Kept(r)' \cap Failures = {}
        /\ req'[r].tool \notin Lenient =>
             /\ "success" \in trail'[r] => durable'[r] = Parts
             /\ wrote'[r] + durable'[r] = Parts
    <3>1. req'[r] = req[r] /\ wrote'[r] = wrote[r] /\ durable'[r] = durable[r]
      BY <2>1
    <3>2. wrote[r] = 0 /\ wrote[r] + durable[r] = Parts => durable[r] = Parts
      BY <2>5
    <3> QED
      BY <2>2, <2>3, <2>4, <3>1, <3>2
  <2> QED
    BY <2>6, <2>7
<1>9. ASSUME NEW r \in Requests, AuditError(r) PROVE RowsTrue'
  <2>1. CASE Atomic(r)
    BY <1>9, <2>1 DEF AuditError, Audit
  <2>2. CASE ~ Atomic(r)
    BY <1>9, <2>2 DEF AuditError, Audit
  <2> QED
    BY <2>1, <2>2
<1>10. ASSUME NEW r \in Requests, Commit(r) PROVE RowsTrue'
  BY <1>10 DEF Commit
<1>11. ASSUME NEW r \in Requests, Crash(r) PROVE RowsTrue'
  BY <1>11 DEF Crash, RollBack
<1>12. ASSUME NEW r \in Requests, NEW what \in Answers, Abort(r, what)
      PROVE  RowsTrue'
  BY <1>12 DEF Abort, RollBack
<1>a. ASSUME NEW r \in Requests,
             TouchFails(r) \/ RefuseScopes(r) \/ AuditFails(r) \/ CommitFails(r)
      PROVE  RowsTrue'
  BY <1>a, <1>12 DEF TouchFails, RefuseScopes, AuditFails, CommitFails, Answers
<1>13. ASSUME NEW r \in Requests,
             Touch(r) \/ CheckScopes(r) \/ RateAllows(r) \/ RateDenies(r) \/
             GetToken(r) \/ BurnToken(r) \/ CacheFails(r) \/ Preview(r) \/
             PreviewFails(r)
      PROVE  RowsTrue'
  BY <1>13
  DEF Touch, CheckScopes, RateAllows, RateDenies, GetToken, BurnToken, CacheFails,
      Preview, PreviewFails
<1>14. ASSUME NEW t \in Requests, TokenExpires(t) PROVE RowsTrue'
  BY <1>14 DEF TokenExpires
<1>15. CASE UNCHANGED vars
  BY <1>15 DEF vars, tokenVars, dbVars
<1> QED
  BY NextCases, <1>1, <1>2, <1>3, <1>4, <1>5, <1>6, <1>7, <1>8, <1>9, <1>10, <1>11,
     <1>12, <1>13, <1>14, <1>15, <1>a DEF Works, Faults

LEMMA OutcomeInvariant == Spec => []OutcomeInv
<1>1. Init => OutcomeInv
  <2> SUFFICES ASSUME Init PROVE OutcomeInv
    OBVIOUS
  <2>1. PipelineType
    BY PipelineTypeInit
  <2>2. NothingYet /\ WriteKnown /\ RowsTrue
    BY PipelineAssumption
    DEF Init, NothingYet, WriteKnown, RowsTrue, NotWritten, Kept, Failures
  <2> QED
    BY <2>1, <2>2 DEF OutcomeInv
<1>2. OutcomeInv /\ [Next]_vars => OutcomeInv'
  BY PipelineTypeStep, NothingYetStep, WriteKnownStep, RowsTrueStep DEF OutcomeInv
<1> QED
  BY <1>1, <1>2, PTL DEF Spec

(* A success row of a tool whose view hides no errors is on the trail only *)
(* when the whole write is stored, and an error, dry_run or denied row of  *)
(* any tool only when nothing of it is, whatever fails or crashes, in both *)
(* transaction modes.                                                      *)
THEOREM OutcomeTrueHolds == Spec => []OutcomeTrue
<1>1. ASSUME OutcomeInv, NEW r \in Requests,
             trail[r] \cap Failures # {}, req[r].tool \notin External
      PROVE  durable[r] = 0
  <2>1. Kept(r) \cap Failures # {}
    BY <1>1 DEF Kept
  <2>2. wrote[r] + durable[r] = 0
    BY <1>1, <2>1 DEF OutcomeInv, RowsTrue
  <2> QED
    BY <1>1, <2>2, PipelineAssumption DEF OutcomeInv, PipelineType, CountsTyped
<1>2. OutcomeInv => OutcomeTrue
  BY <1>1 DEF OutcomeInv, RowsTrue, OutcomeTrue, Failures
<1> QED
  BY <1>2, OutcomeInvariant, PTL

(* From the moment a call may write, its attempt is recorded; it is on the *)
(* trail with the first change that is stored.                             *)
Recorded(r) ==
    /\ pc[r] \in {"writing", "ok", "failed"} \/ wrote[r] + durable[r] > 0
         => "attempt" \in Kept(r)
    /\ durable[r] > 0 => "attempt" \in trail[r]
    /\ ~ Atomic(r) => rows[r] = {}

AttemptFirst ==
    \A r \in Requests :
        pc[r] # "idle" /\ req[r].tool \notin External \cap AtomicTools => Recorded(r)

LEMMA AttemptFirstStep ==
  ASSUME OutcomeInv, AttemptFirst, [Next]_vars
  PROVE  AttemptFirst'
<1> USE PipelineAssumption
    DEF OutcomeInv, PipelineType, NothingYet, NotWritten, AttemptFirst, Recorded,
        Atomic, Kept, Typed, OutcomesTyped, CountsTyped, Goto, Tell, dbVars
<1>1. ASSUME NEW r \in Requests, NEW cred \in Credentials, NEW tool \in Tools,
             NEW payload \in Payloads, NEW token \in Requests \cup {None},
             Receive(r, cred, tool, payload, token)
      PROVE  AttemptFirst'
  BY <1>1 DEF Receive
<1>2. ASSUME NEW r \in Requests, AuditDenied(r) PROVE AttemptFirst'
  BY <1>2 DEF AuditDenied, Audit
<1>3. ASSUME NEW r \in Requests, AuditDryRun(r) PROVE AttemptFirst'
  BY <1>3 DEF AuditDryRun, Audit
<1>4. ASSUME NEW r \in Requests, AuditAttempt(r) PROVE AttemptFirst'
  BY <1>4 DEF AuditAttempt, Audit
<1>5. ASSUME NEW r \in Requests, WritePart(r) PROVE AttemptFirst'
  BY <1>5 DEF WritePart
<1>6. ASSUME NEW r \in Requests, WriteReturns(r) PROVE AttemptFirst'
  BY <1>6 DEF WriteReturns, KeepBlock, UndoBlock
<1>7. ASSUME NEW r \in Requests, WriteFails(r) PROVE AttemptFirst'
  BY <1>7 DEF WriteFails, UndoBlock
<1>8. ASSUME NEW r \in Requests, AuditSuccess(r) PROVE AttemptFirst'
  BY <1>8 DEF AuditSuccess, Audit
<1>9. ASSUME NEW r \in Requests, AuditError(r) PROVE AttemptFirst'
  BY <1>9 DEF AuditError, Audit
<1>10. ASSUME NEW r \in Requests, Commit(r) PROVE AttemptFirst'
  BY <1>10 DEF Commit
<1>11. ASSUME NEW r \in Requests, Crash(r) PROVE AttemptFirst'
  BY <1>11 DEF Crash, RollBack
<1>12. ASSUME NEW r \in Requests, NEW what \in Answers, Abort(r, what)
      PROVE  AttemptFirst'
  BY <1>12 DEF Abort, RollBack
<1>a. ASSUME NEW r \in Requests,
             TouchFails(r) \/ RefuseScopes(r) \/ AuditFails(r) \/ CommitFails(r)
      PROVE  AttemptFirst'
  BY <1>a, <1>12 DEF TouchFails, RefuseScopes, AuditFails, CommitFails, Answers
<1>13. ASSUME NEW r \in Requests,
             Touch(r) \/ CheckScopes(r) \/ RateAllows(r) \/ RateDenies(r) \/
             GetToken(r) \/ BurnToken(r) \/ CacheFails(r) \/ Preview(r) \/
             PreviewFails(r)
      PROVE  AttemptFirst'
  BY <1>13
  DEF Touch, CheckScopes, RateAllows, RateDenies, GetToken, BurnToken, CacheFails,
      Preview, PreviewFails
<1>14. ASSUME NEW t \in Requests, TokenExpires(t) PROVE AttemptFirst'
  BY <1>14 DEF TokenExpires
<1>15. CASE UNCHANGED vars
  BY <1>15 DEF vars, tokenVars, dbVars
<1> QED
  BY NextCases, <1>1, <1>2, <1>3, <1>4, <1>5, <1>6, <1>7, <1>8, <1>9, <1>10, <1>11,
     <1>12, <1>13, <1>14, <1>15, <1>a DEF Works, Faults

(* Intent is recorded before the write: at no moment is a change of a call *)
(* stored without its attempt, in both transaction modes, but for changes  *)
(* outside the database in a request that is one transaction.              *)
THEOREM IntentFirst == Spec => []IntentOnRecord
<1>1. Init => AttemptFirst
  BY DEF Init, AttemptFirst
<1>2. OutcomeInv /\ AttemptFirst /\ [Next]_vars => AttemptFirst'
  BY AttemptFirstStep
<1>3. ASSUME OutcomeInv, AttemptFirst, NEW r \in Requests, durable[r] > 0,
             req[r].tool \notin External \cap AtomicTools
      PROVE  "attempt" \in trail[r]
  <2>1. pc[r] # "idle"
    BY <1>3, PipelineAssumption
    DEF OutcomeInv, NothingYet, NotWritten, PipelineType, CountsTyped
  <2> QED
    BY <1>3, <2>1 DEF AttemptFirst, Recorded
<1>4. OutcomeInv /\ AttemptFirst => IntentOnRecord
  BY <1>3 DEF IntentOnRecord
<1> QED
  BY <1>1, <1>2, <1>4, OutcomeInvariant, PTL DEF Spec

-----------------------------------------------------------------------------
(* KeepsPromise: with one transaction per call and changes only in the     *)
(* database, nothing is stored before the commit, and what the commit      *)
(* stores is one of the records AuditTrail allows, with its effect.        *)
Quiet == {"idle", "touch", "scopes", "rate", "denied", "token", "burn", "preview",
          "attempt", "crashed"}

\* What the open transaction of r holds at each stage.
Held(r, outcomes, n) == rows[r] = outcomes /\ wrote[r] = n

\* The open transaction of r holds the whole write, of a tool that promises it.
Whole(r) == req[r].tool \notin Lenient => wrote[r] = Parts

TransactionHolds ==
    \A r \in Requests :
        /\ pc[r] # "done" => trail[r] = {} /\ durable[r] = 0
        /\ pc[r] \in Quiet => Held(r, {}, 0)
        /\ pc[r] = "dryrun" => Held(r, {"dry_run"}, 0)
        /\ pc[r] = "writing" => rows[r] = {"attempt"}
        /\ pc[r] = "ok" => rows[r] = {"attempt"} /\ Whole(r)
        /\ pc[r] = "failed" => Held(r, {"attempt"}, 0)
        /\ pc[r] = "commit" => \/ Held(r, {}, 0)
                               \/ Held(r, {"denied"}, 0)
                               \/ Held(r, {"dry_run"}, 0)
                               \/ Held(r, {"attempt", "error"}, 0)
                               \/ rows[r] = {"attempt", "success"} /\ Whole(r)

LEMMA TransactionHoldsStep ==
  ASSUME AtomicTools = Tools, External = {}, PipelineType, TransactionHolds,
         [Next]_vars
  PROVE  TransactionHolds'
<1> USE PipelineAssumption
    DEF TransactionHolds, Held, Whole, Quiet, PipelineType, Typed, Received, Call, Atomic,
        OutcomesTyped, CountsTyped, Goto, Tell, dbVars
<1>1. ASSUME NEW r \in Requests, NEW cred \in Credentials, NEW tool \in Tools,
             NEW payload \in Payloads, NEW token \in Requests \cup {None},
             Receive(r, cred, tool, payload, token)
      PROVE  TransactionHolds'
  BY <1>1 DEF Receive
<1>2. ASSUME NEW r \in Requests, AuditDenied(r) PROVE TransactionHolds'
  BY <1>2 DEF AuditDenied, Audit
<1>3. ASSUME NEW r \in Requests, AuditDryRun(r) PROVE TransactionHolds'
  BY <1>3 DEF AuditDryRun, Audit
<1>4. ASSUME NEW r \in Requests, AuditAttempt(r) PROVE TransactionHolds'
  BY <1>4 DEF AuditAttempt, Audit
<1>5. ASSUME NEW r \in Requests, WritePart(r) PROVE TransactionHolds'
  BY <1>5 DEF WritePart
<1>6. ASSUME NEW r \in Requests, WriteReturns(r) PROVE TransactionHolds'
  BY <1>6 DEF WriteReturns, KeepBlock, UndoBlock
<1>7. ASSUME NEW r \in Requests, WriteFails(r) PROVE TransactionHolds'
  BY <1>7 DEF WriteFails, UndoBlock
<1>8. ASSUME NEW r \in Requests, AuditSuccess(r) PROVE TransactionHolds'
  BY <1>8 DEF AuditSuccess, Audit
<1>9. ASSUME NEW r \in Requests, AuditError(r) PROVE TransactionHolds'
  BY <1>9 DEF AuditError, Audit
<1>10. ASSUME NEW r \in Requests, Commit(r) PROVE TransactionHolds'
  BY <1>10 DEF Commit
<1>11. ASSUME NEW r \in Requests, Crash(r) PROVE TransactionHolds'
  BY <1>11 DEF Crash, RollBack
<1>12. ASSUME NEW r \in Requests,
             TouchFails(r) \/ RefuseScopes(r) \/ AuditFails(r) \/ CommitFails(r)
      PROVE  TransactionHolds'
  BY <1>12 DEF TouchFails, RefuseScopes, AuditFails, CommitFails, Abort, RollBack
<1>13. ASSUME NEW r \in Requests,
             Touch(r) \/ CheckScopes(r) \/ RateAllows(r) \/ RateDenies(r) \/
             GetToken(r) \/ BurnToken(r) \/ CacheFails(r) \/ Preview(r) \/
             PreviewFails(r)
      PROVE  TransactionHolds'
  BY <1>13
  DEF Touch, CheckScopes, RateAllows, RateDenies, GetToken, BurnToken, CacheFails,
      Preview, PreviewFails
<1>14. ASSUME NEW t \in Requests, TokenExpires(t) PROVE TransactionHolds'
  BY <1>14 DEF TokenExpires
<1>15. CASE UNCHANGED vars
  BY <1>15 DEF vars, tokenVars, dbVars
<1> QED
  BY NextCases, <1>1, <1>2, <1>3, <1>4, <1>5, <1>6, <1>7, <1>8, <1>9, <1>10, <1>11,
     <1>12, <1>13, <1>14, <1>15 DEF Works, Faults

trailVars == <<Asked, trail, durable>>

LEMMA PromiseStep ==
  ASSUME AtomicTools = Tools, External = {}, PipelineType, TransactionHolds, [Next]_vars
  PROVE  [Promise!TrailNext]_trailVars
<1> USE DEF trailVars, dbVars
<1>0. ASSUME NEW r \in Requests, pc[r] # "idle", pc'[r] # "idle", req' = req,
             \A s \in Requests \ {r} : pc'[s] = pc[s]
      PROVE  Asked' = Asked
  BY <1>0 DEF Asked
<1>1. ASSUME NEW r \in Requests, Commit(r) PROVE [Promise!TrailNext]_trailVars
  <2>a. trail[r] = {} /\ durable[r] = 0
    BY <1>1 DEF Commit, TransactionHolds
  <2>b. trail[r] \cup rows[r] = rows[r] /\ durable[r] + wrote[r] = wrote[r]
    BY <2>a, PipelineAssumption DEF PipelineType, CountsTyped
  <2>c. Asked' = Asked
    BY <1>0, <1>1 DEF Commit, Goto, PipelineType, Typed
  <2>1. /\ trail' = [trail EXCEPT ![r] = rows[r]]
        /\ durable' = [durable EXCEPT ![r] = wrote[r]]
        /\ trail[r] = {} /\ durable[r] = 0
    BY <1>1, <2>a, <2>b DEF Commit
  <2>2. CASE Held(r, {}, 0)
    BY <2>c, <2>1, <2>2 DEF Held, PipelineType, OutcomesTyped, CountsTyped
  <2>3. CASE ~ Held(r, {}, 0)
    <3>1. Asked[r] = req[r].tool /\ Asked[r] # None
      BY <1>1, PipelineAssumption
      DEF Commit, Asked, PipelineType, Typed, Received, Call
    <3>2. wrote[r] \in 0..Parts
      BY DEF PipelineType, CountsTyped
    <3>a. \/ /\ rows[r] \in {{"denied"}, {"dry_run"}, {"attempt", "error"}}
             /\ wrote[r] = 0
          \/ rows[r] = {"attempt", "success"} /\ Whole(r)
      BY <1>1, <2>3 DEF Commit, TransactionHolds, Held
    <3>3. /\ rows[r] \in Promise!Records
          /\ wrote[r] \in Promise!Effects(Asked[r], rows[r])
      <4>1. CASE /\ rows[r] \in {{"denied"}, {"dry_run"}, {"attempt", "error"}}
                 /\ wrote[r] = 0
        BY <4>1 DEF Promise!Records, Promise!Effects
      <4>2. CASE rows[r] = {"attempt", "success"} /\ Whole(r)
        BY <4>2, <3>1, <3>2 DEF Whole, Promise!Records, Promise!Effects
      <4> QED
        BY <3>a, <4>1, <4>2
    <3>4. Promise!Conclude(r)
      BY <2>c, <2>1, <3>1, <3>3 DEF Promise!Conclude
    <3> QED
      BY <3>4 DEF Promise!TrailNext
  <2> QED
    BY <2>2, <2>3
<1>2. ASSUME NEW r \in Requests, Works(r), ~ Commit(r) PROVE UNCHANGED trailVars
  <2>1. pc[r] # "idle" => Atomic(r) /\ req[r].tool \notin External
    BY DEF PipelineType, Typed, Received, Call, Atomic
  <2>2. /\ pc[r] # "idle" /\ pc'[r] # "idle" /\ req' = req
        /\ \A s \in Requests \ {r} : pc'[s] = pc[s]
    BY <1>2
    DEF Works, Touch, CheckScopes, RefuseScopes, RateAllows, RateDenies, AuditDenied,
        GetToken, BurnToken, AuditDryRun, Preview, AuditAttempt, WritePart,
        WriteReturns, AuditSuccess, AuditError, Abort, Goto, PipelineType, Typed
  <2>3. UNCHANGED <<trail, durable>>
    BY <1>2, <2>1
    DEF Works, Touch, CheckScopes, RefuseScopes, RateAllows, RateDenies, AuditDenied,
        GetToken, BurnToken, AuditDryRun, Preview, AuditAttempt, WritePart,
        WriteReturns, KeepBlock, UndoBlock, AuditSuccess, AuditError, Audit, Abort,
        RollBack
  <2> QED
    BY <1>0, <2>2, <2>3
<1>3. ASSUME NEW r \in Requests, Faults(r) PROVE UNCHANGED trailVars
  <2>1. /\ pc[r] # "idle" /\ pc'[r] # "idle" /\ req' = req
        /\ \A s \in Requests \ {r} : pc'[s] = pc[s]
    BY <1>3
    DEF Faults, TouchFails, CacheFails, PreviewFails, WriteFails, AuditFails,
        CommitFails, Crash, Abort, Goto, PipelineType, Typed
  <2>2. UNCHANGED <<trail, durable>>
    BY <1>3
    DEF Faults, TouchFails, CacheFails, PreviewFails, WriteFails, UndoBlock,
        AuditFails, CommitFails, Crash, Abort, RollBack
  <2> QED
    BY <1>0, <2>1, <2>2
<1>4. ASSUME NEW r \in Requests, NEW cred \in Credentials, NEW tool \in Tools,
             NEW payload \in Payloads, NEW token \in Requests \cup {None},
             Receive(r, cred, tool, payload, token)
      PROVE  [Promise!TrailNext]_trailVars
  <2>1. Asked[r] = None
    BY <1>4 DEF Receive, Asked
  <2>2. /\ pc'[r] # "idle" /\ req'[r].tool = tool
        /\ \A s \in Requests \ {r} : pc'[s] = pc[s] /\ req'[s] = req[s]
    BY <1>4 DEF Receive, Goto, PipelineType, Typed
  <2>3. Asked' = [Asked EXCEPT ![r] = tool]
    BY <2>2 DEF Asked
  <2>4. Promise!Ask(r)
    BY <1>4, <2>1, <2>3 DEF Receive, Promise!Ask
  <2> QED
    BY <2>4 DEF Promise!TrailNext
<1>5. ASSUME NEW t \in Requests, TokenExpires(t) PROVE UNCHANGED trailVars
  BY <1>5 DEF TokenExpires, Asked
<1>6. CASE UNCHANGED vars
  BY <1>6 DEF vars, Asked
<1> QED
  BY NextCases, <1>1, <1>2, <1>3, <1>4, <1>5, <1>6

(* With ATOMIC_REQUESTS and a tool that changes only the database, the     *)
(* pipeline implements AuditTrail: a call's audit record and its effect    *)
(* become durable in one step and agree.                                   *)
THEOREM PipelineKeepsPromise ==
  ASSUME AtomicTools = Tools, External = {}
  PROVE  Spec => KeepsPromise
<1>1. Init => TransactionHolds
  BY DEF Init, TransactionHolds, Held
<1>2. Init => Promise!TrailInit
  BY DEF Init, Promise!TrailInit, Asked
<1>3. PipelineType /\ TransactionHolds /\ [Next]_vars => TransactionHolds'
  BY TransactionHoldsStep
<1>4. PipelineType /\ TransactionHolds /\ [Next]_vars => [Promise!TrailNext]_trailVars
  BY PromiseStep
<1> QED
  BY <1>1, <1>2, <1>3, <1>4, PipelineTypeInvariant, PTL
  DEF Spec, KeepsPromise, Promise!TrailSpec, trailVars, Promise!trailVars

-----------------------------------------------------------------------------
(* AnswerTrue, under the same assumptions: what the answer says is decided *)
(* before the commit, in step with what the transaction holds, and a       *)
(* transaction that is undone takes the answer with it.                    *)
AnswerHeld ==
    \A r \in Requests :
        /\ pc[r] = "commit" => /\ wrote[r] > 0 => answer[r] = "applied"
                               /\ answer[r] = "applied" => Whole(r)
        /\ pc[r] = "done" =>
             /\ durable[r] > 0 => answer[r] = "applied"
             /\ answer[r] = "applied" /\ req[r].tool \notin Lenient => durable[r] = Parts

LEMMA AnswerHeldStep ==
  ASSUME AtomicTools = Tools, External = {}, TypeOK, PipelineType,
         TransactionHolds, AnswerHeld, [Next]_vars
  PROVE  AnswerHeld'
<1> USE PipelineAssumption
    DEF AnswerHeld, TransactionHolds, Held, Whole, Quiet, TypeOK, Goto, Tell, dbVars
<1>1. ASSUME NEW r \in Requests, NEW cred \in Credentials, NEW tool \in Tools,
             NEW payload \in Payloads, NEW token \in Requests \cup {None},
             Receive(r, cred, tool, payload, token)
      PROVE  AnswerHeld'
  BY <1>1 DEF Receive
<1>2. ASSUME NEW r \in Requests, AuditDenied(r) \/ AuditSuccess(r) \/ AuditError(r)
      PROVE  AnswerHeld'
  BY <1>2 DEF AuditDenied, AuditSuccess, AuditError
<1>3. ASSUME NEW r \in Requests, CacheFails(r) \/ Preview(r) \/ PreviewFails(r)
      PROVE  AnswerHeld'
  BY <1>3 DEF CacheFails, Preview, PreviewFails
<1>4. ASSUME NEW r \in Requests, Commit(r) PROVE AnswerHeld'
  BY <1>4 DEF Commit
<1>5. ASSUME NEW r \in Requests, Crash(r) PROVE AnswerHeld'
  BY <1>5 DEF Crash, RollBack
<1>6. ASSUME NEW r \in Requests,
             TouchFails(r) \/ RefuseScopes(r) \/ AuditFails(r) \/ CommitFails(r)
      PROVE  AnswerHeld'
  BY <1>6 DEF TouchFails, RefuseScopes, AuditFails, CommitFails, Abort, RollBack
<1>7. ASSUME NEW r \in Requests,
             \/ Touch(r) \/ CheckScopes(r) \/ RateAllows(r) \/ RateDenies(r)
             \/ GetToken(r) \/ BurnToken(r) \/ AuditDryRun(r) \/ AuditAttempt(r)
             \/ WritePart(r) \/ WriteReturns(r) \/ WriteFails(r)
      PROVE  AnswerHeld'
  <2>1. /\ pc'[r] \notin {"commit", "done"}
        /\ \A s \in Requests \ {r} : pc'[s] = pc[s]
    BY <1>7
    DEF Touch, CheckScopes, RateAllows, RateDenies, GetToken, BurnToken, AuditDryRun,
        AuditAttempt, WritePart, WriteReturns, WriteFails
  <2>2. /\ UNCHANGED <<req, answer>>
        /\ \A s \in Requests \ {r} : wrote'[s] = wrote[s] /\ durable'[s] = durable[s]
    BY <1>7
    DEF Touch, CheckScopes, RateAllows, RateDenies, GetToken, BurnToken, AuditDryRun,
        AuditAttempt, WritePart, WriteReturns, KeepBlock, UndoBlock, WriteFails
  <2> QED
    BY <2>1, <2>2
<1>8. ASSUME NEW t \in Requests, TokenExpires(t) PROVE AnswerHeld'
  BY <1>8 DEF TokenExpires
<1>9. CASE UNCHANGED vars
  BY <1>9 DEF vars
<1> QED
  BY NextCases, <1>1, <1>2, <1>3, <1>4, <1>5, <1>6, <1>7, <1>8, <1>9 DEF Works, Faults

(* With ATOMIC_REQUESTS and tools that change only the database, whatever  *)
(* was kept is answered as applied, and applied means the whole write,     *)
(* unless the view hides its errors.                                       *)
THEOREM AnswerTrueHolds ==
  ASSUME AtomicTools = Tools, External = {}
  PROVE  Spec => []AnswerTrue
<1>1. Init => TransactionHolds /\ AnswerHeld
  BY DEF Init, TransactionHolds, Held, AnswerHeld
<1>2. TypeOK /\ PipelineType /\ TransactionHolds /\ AnswerHeld /\ [Next]_vars
        => TransactionHolds' /\ AnswerHeld'
  BY TransactionHoldsStep, AnswerHeldStep
<1>3. AnswerHeld => AnswerTrue
  BY DEF AnswerHeld, AnswerTrue
<1> QED
  BY <1>1, <1>2, <1>3, TypeCorrect, PipelineTypeInvariant, PTL DEF Spec

-----------------------------------------------------------------------------
(* OneWritePerToken: consume_confirm_token alone lets two overlapping      *)
(* calls through with one token (its get and its delete are two steps).    *)
(* Two calls of one key do not overlap there where a request is one        *)
(* transaction: the update of last_used_at locks the row until its end.    *)
OfOneKey(r, s) == /\ req[r].cred \in Keys /\ req[r].cred = req[s].cred
                  /\ Atomic(r) /\ Atomic(s)

Serial == \A r, s \in Requests : InFlight(r) /\ InFlight(s) /\ OfOneKey(r, s) => r = s

BurnInStep == \A r \in Requests : call[r].phase = "delete" => pc[r] = "burn"

Holding(r, s) == /\ call[r].phase \in {"delete", "confirmed"}
                 /\ call[s].phase \in {"delete", "confirmed"}
                 /\ call[r].token = call[s].token
                 /\ OfOneKey(r, s)

OneHolder == \A r, s \in Requests : Holding(r, s) => r = s

LEMMA SerialStep ==
  ASSUME PipelineType, Serial, [Next]_vars
  PROVE  Serial'
<1> USE DEF Serial, OfOneKey, InFlight, Atomic, PipelineType, Typed, Goto
<1>1. ASSUME NEW r \in Requests, NEW cred \in Credentials, NEW tool \in Tools,
             NEW payload \in Payloads, NEW token \in Requests \cup {None},
             Receive(r, cred, tool, payload, token)
      PROVE  Serial'
  BY <1>1 DEF Receive
<1>2. ASSUME NEW r \in Requests, Touch(r) PROVE Serial'
  BY <1>2 DEF Touch, KeyLocked
<1>3. ASSUME NEW r \in Requests,
             TouchFails(r) \/ CheckScopes(r) \/ RefuseScopes(r) \/ RateAllows(r)
             \/ RateDenies(r) \/ AuditDenied(r) \/ GetToken(r) \/ BurnToken(r) \/
             CacheFails(r) \/ AuditDryRun(r) \/ Preview(r) \/ PreviewFails(r) \/
             AuditAttempt(r) \/ WritePart(r) \/ WriteReturns(r) \/ WriteFails(r)
             \/ AuditSuccess(r) \/ AuditError(r) \/ AuditFails(r) \/ Commit(r) \/
             CommitFails(r) \/ Crash(r)
      PROVE  Serial'
  BY <1>3
  DEF TouchFails, CheckScopes, RefuseScopes, RateAllows, RateDenies, AuditDenied,
      GetToken, BurnToken, CacheFails, AuditDryRun, Preview, PreviewFails,
      AuditAttempt, WritePart, WriteReturns, WriteFails, AuditSuccess, AuditError,
      AuditFails, Commit, CommitFails, Crash, Abort
<1>4. ASSUME NEW t \in Requests, TokenExpires(t) PROVE Serial'
  BY <1>4 DEF TokenExpires
<1>5. CASE UNCHANGED vars
  BY <1>5 DEF vars, tokenVars, dbVars
<1> QED
  BY NextCases, <1>1, <1>2, <1>3, <1>4, <1>5 DEF Works, Faults

LEMMA BurnInStepStep ==
  ASSUME PipelineType, InStep, BurnInStep, [Next]_vars
  PROVE  BurnInStep'
<1> USE DEF BurnInStep, InStep, PipelineType, Typed, Rail!TokenTypeOK, Rail!CallRecord,
            Goto, tokenVars
<1>1. ASSUME NEW r \in Requests, NEW cred \in Credentials, NEW tool \in Tools,
             NEW payload \in Payloads, NEW token \in Requests \cup {None},
             Receive(r, cred, tool, payload, token)
      PROVE  BurnInStep'
  BY <1>1 DEF Receive
<1>2. ASSUME NEW r \in Requests, RateAllows(r) PROVE BurnInStep'
  BY <1>2 DEF RateAllows, Rail!Enter
<1>3. ASSUME NEW r \in Requests, GetToken(r) PROVE BurnInStep'
  BY <1>3 DEF GetToken, Rail!Get
<1>4. ASSUME NEW r \in Requests, BurnToken(r) PROVE BurnInStep'
  BY <1>4 DEF BurnToken, Rail!Delete
<1>5. ASSUME NEW r \in Requests, CacheFails(r) PROVE BurnInStep'
  BY <1>5 DEF CacheFails, Rail!Abandon
<1>6. ASSUME NEW r \in Requests, Crash(r) PROVE BurnInStep'
  BY <1>6 DEF Crash, Rail!Abandon
<1>7. ASSUME NEW r \in Requests,
             Touch(r) \/ TouchFails(r) \/ CheckScopes(r) \/ RefuseScopes(r) \/
             RateDenies(r) \/ AuditDenied(r) \/ AuditDryRun(r) \/ Preview(r) \/
             PreviewFails(r) \/ AuditAttempt(r) \/ WritePart(r) \/
             WriteReturns(r) \/ WriteFails(r) \/ AuditSuccess(r) \/ AuditError(r)
             \/ AuditFails(r) \/ Commit(r) \/ CommitFails(r)
      PROVE  BurnInStep'
  BY <1>7
  DEF Touch, TouchFails, CheckScopes, RefuseScopes, RateDenies, AuditDenied,
      AuditDryRun, Preview, PreviewFails, AuditAttempt, WritePart, WriteReturns,
      WriteFails, AuditSuccess, AuditError, AuditFails, Commit, CommitFails, Abort,
      Rail!Issue
<1>8. ASSUME NEW t \in Requests, TokenExpires(t) PROVE BurnInStep'
  BY <1>8 DEF TokenExpires, Rail!Expire
<1>9. CASE UNCHANGED vars
  BY <1>9 DEF vars, tokenVars, dbVars
<1> QED
  BY NextCases, <1>1, <1>2, <1>3, <1>4, <1>5, <1>6, <1>7, <1>8, <1>9 DEF Works,
     Faults

LEMMA OneHolderStep ==
  ASSUME PreviewInv, Serial, BurnInStep, OneHolder, [Next]_vars
  PROVE  OneHolder'
<1>0. Rail!TokenTypeOK
  BY DEF PreviewInv, PipelineType
<1> USE <1>0 DEF OneHolder, Holding, OfOneKey, Atomic, Rail!TokenTypeOK, Rail!CallRecord, tokenVars
<1>1. ASSUME NEW r \in Requests, GetToken(r) PROVE OneHolder'
  <2>1. CASE ~ Rail!Matches(call[r].token, call[r].fp)
    BY <1>1, <2>1 DEF GetToken, Rail!Get
  <2>2. ASSUME Rail!Matches(call[r].token, call[r].fp), NEW s \in Requests,
               call[s].phase \in {"delete", "confirmed"}, call[s].token = call[r].token,
               OfOneKey(r, s)
        PROVE  s = r
    <3>1. call[r].token \in Requests /\ cache[call[r].token] # None
      BY <2>2 DEF Rail!Matches
    <3>2. call[s].phase = "delete"
      BY <2>2, <3>1 DEF PreviewInv, RailProofs!TokenInv, RailProofs!SpentGone,
         RailProofs!Spent
    <3>3. pc[r] = "token" /\ pc[s] = "burn"
      BY <1>1, <3>2 DEF GetToken, BurnInStep
    <3> QED
      BY <2>2, <3>3 DEF Serial, InFlight
  <2>3. CASE Rail!Matches(call[r].token, call[r].fp)
    BY <1>1, <2>2, <2>3 DEF GetToken, Rail!Get
  <2> QED
    BY <2>1, <2>3
<1>2. ASSUME NEW r \in Requests, BurnToken(r) PROVE OneHolder'
  BY <1>2 DEF BurnToken, Rail!Delete
<1>3. ASSUME NEW r \in Requests, RateAllows(r) PROVE OneHolder'
  BY <1>3 DEF RateAllows, Rail!Enter
<1>4. ASSUME NEW r \in Requests, CacheFails(r) PROVE OneHolder'
  BY <1>4 DEF CacheFails, Rail!Abandon
<1>5. ASSUME NEW r \in Requests, Preview(r) PROVE OneHolder'
  BY <1>5 DEF Preview, Rail!Issue
<1>6. ASSUME NEW r \in Requests, Crash(r) PROVE OneHolder'
  BY <1>6 DEF Crash, Rail!Abandon
<1>7. ASSUME NEW t \in Requests, TokenExpires(t) PROVE OneHolder'
  BY <1>7 DEF TokenExpires, Rail!Expire
<1>8. ASSUME NEW r \in Requests, Faults(r) PROVE OneHolder'
  BY <1>4, <1>6, <1>8
  DEF Faults, TouchFails, PreviewFails, WriteFails, AuditFails, CommitFails, Abort
<1>9. ASSUME NEW r \in Requests, Works(r) PROVE OneHolder'
  BY <1>1, <1>2, <1>3, <1>5, <1>9
  DEF Works, Touch, CheckScopes, RefuseScopes, RateDenies, AuditDenied, AuditDryRun,
      AuditAttempt, WritePart, WriteReturns, AuditSuccess, AuditError, Commit, Abort
<1>10. CASE UNCHANGED vars
  BY <1>10 DEF vars
<1>11. ASSUME NEW r \in Requests, NEW cred \in Credentials, NEW tool \in Tools,
              NEW payload \in Payloads, NEW token \in Requests \cup {None},
              Receive(r, cred, tool, payload, token)
       PROVE  OneHolder'
  BY <1>11 DEF Receive, PreviewInv, PipelineType, Typed, InStep
<1> QED
  BY <1>7, <1>8, <1>9, <1>10, <1>11, NextCases

(* One preview, one write: no two calls of one key to tools of a process   *)
(* with ATOMIC_REQUESTS write by the same confirm token.                   *)
THEOREM OneWritePerKey == Spec => []OneWritePerToken
<1> DEFINE Inv == PreviewInv /\ Serial /\ BurnInStep /\ OneHolder
<1>1. Init => Inv
  <2> SUFFICES ASSUME Init PROVE Serial /\ BurnInStep /\ OneHolder
    BY PreviewInvInit
  <2> QED
    BY DEF Init, Rail!TokenInit, Rail!Idle, Serial, InFlight, BurnInStep,
       OneHolder, Holding
<1>2. Inv /\ [Next]_vars => Inv'
  BY PreviewInvStep, SerialStep, BurnInStepStep, OneHolderStep DEF PreviewInv
<1>3. ASSUME Inv, NEW r \in Requests, NEW s \in Requests,
             req[r].tool \in Gated, req[s].tool \in Gated,
             durable[r] > 0, durable[s] > 0, req[r].token = req[s].token,
             OfOneKey(r, s)
      PROVE  r = s
  <2>1. HasWritten(r) /\ HasWritten(s)
    BY <1>3, PipelineAssumption DEF PreviewInv, PipelineType, CountsTyped, HasWritten
  <2>2. call[r].phase = "confirmed" /\ call[s].phase = "confirmed"
    BY <1>3, <2>1 DEF PreviewInv, ConfirmedWrite
  <2>3. call[r].token = call[s].token
    BY <1>3, <2>2 DEF PreviewInv, InStep
  <2> QED
    BY <1>3, <2>2, <2>3 DEF OneHolder, Holding
<1>4. Inv => OneWritePerToken
  BY <1>3 DEF OneWritePerToken, OfOneKey
<1> QED
  BY <1>1, <1>2, <1>4, PTL DEF Spec

=============================================================================
