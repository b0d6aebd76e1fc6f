---------------------------- MODULE Auth_proofs ----------------------------
(***************************************************************************)
(* Proofs about Auth for every set of callers, every number of grants and  *)
(* every set of faults.                                                    *)
(***************************************************************************)
EXTENDS Auth, TLAPS

USE MaxGrantsAssumption, UrlAssumption, CallersAssumption

-----------------------------------------------------------------------------
(* Type correctness. *)

\* Each way a call can go on keeps the types of the callers' variables.
LEMMA TypeStep ==
  ASSUME TypeOK, HandInv, NEW c \in Callers, Progress(c)
  PROVE  TypeOK'
<1> USE DEF TypeOK, RepoTypeOK, OAuthTypeOK, Labels, Operations, Outcomes, repoVars,
        oauthVars, lockVars, callerVars, Goto, Take, Forget, ReleaseRefresh, At
<1>1. ASSUME NEW res \in Outcomes, NEW cr \in Credential \cup {NoCredential},
             Finish(c, res, cr)
      PROVE  /\ (pc \in [Callers -> Labels])'
             /\ (op \in [Callers -> Operations])'
             /\ (via \in [Callers -> {"none", "refresh", "device"}])'
             /\ (cred \in [Callers -> Credential \cup {NoCredential}])'
             /\ (outcome \in [Callers -> Outcomes])'
             /\ (presented \in [Callers -> Grants \cup {NoToken}])'
             /\ (refreshHolder \in Callers \cup {None})'
             /\ (since \in [Callers -> Nat])'
  BY <1>1 DEF Finish
<1>2. ASSUME GoManual(c) \/ StartDeviceFlow(c)
      PROVE  /\ (pc \in [Callers -> Labels])'
             /\ (op \in [Callers -> Operations])'
             /\ (via \in [Callers -> {"none", "refresh", "device"}])'
             /\ (cred \in [Callers -> Credential \cup {NoCredential}])'
             /\ (outcome \in [Callers -> Outcomes])'
             /\ (presented \in [Callers -> Grants \cup {NoToken}])'
             /\ (refreshHolder \in Callers \cup {None})'
             /\ (since \in [Callers -> Nat])'
  BY <1>2 DEF GoManual, StartDeviceFlow
<1>3. CASE Load(c)
  BY <1>3, <1>2 DEF Load, LoadFails, Loads, File
<1>4. CASE CheckExpiry(c)
  BY <1>4, <1>1 DEF CheckExpiry, Succeed
<1>5. CASE LockRefresh(c)
  BY <1>5 DEF LockRefresh
<1>6. CASE Recheck(c)
  BY <1>6, <1>1, <1>2 DEF Recheck, Fail, File
<1>7. CASE Reload(c)
  BY <1>7, <1>1, <1>2 DEF Reload, Fail, Succeed, File
<1>8. CASE Refresh(c)
  BY <1>8, <1>2 DEF Refresh, Credential, NoCredential
<1>9. CASE RefreshAnswered(c)
  <2>1. issued' \in 1..MaxGrants
    BY <1>9 DEF RefreshAnswered, Issue, NextGrant
  <2>5. home' \in [Grants -> Resource]
    <3>1. cred[c] \in Credential
      BY <1>9 DEF RefreshAnswered, HandInv, Loaded
    <3> QED
      BY <1>9, <3>1 DEF RefreshAnswered, Issue, Credential
  <2>2. PICK t \in TokensAfterRefresh(presented[c]) : Take(c, Answer(t, cred[c].url))
    BY <1>9 DEF RefreshAnswered
  <2>3. Answer(t, cred[c].url) \in Credential
    BY <1>9 DEF RefreshAnswered, Issue, TokensAfterRefresh, NextGrant, Answer,
       Credential, Grants, NoCredential, Resource
  <2>4. cred' \in [Callers -> Credential \cup {NoCredential}]
    BY <2>2, <2>3
  <2> QED
    BY <1>9, <2>1, <2>4, <2>5 DEF RefreshAnswered, Issue, NextGrant
<1>10. CASE RefreshFails(c)
  BY <1>10, <1>2 DEF RefreshFails, ServiceFails
<1>11. CASE DeviceGranted(c)
  BY <1>11 DEF DeviceGranted, Issue, TokensAfterDevice, Answer, NextGrant, Credential, Grants
<1>12. CASE DeviceFails(c)
  BY <1>12, <1>1, <1>2 DEF DeviceFails, ServiceFails, Fail
<1>13. CASE BeginSave(c)
  BY <1>13 DEF BeginSave, Truncate, Torn, File
<1>14. CASE SaveNotOpened(c)
  BY <1>14, <1>1, <1>2 DEF SaveNotOpened, OpenFails, SaveFailed, Fail
<1>15. CASE SaveCompletes(c)
  <2>1. (file \in File)'
    BY <1>15 DEF SaveCompletes, CompleteWrite, Holding, File
  <2>2. damaged' \in BOOLEAN
    BY <1>15, Zenon DEF SaveCompletes, CompleteWrite
  <2>4. versions' = versions + 1 /\ versions' \in Nat
    BY <1>15 DEF SaveCompletes, CompleteWrite
  <2>5. version' = [version EXCEPT ![cred[c].grant] = versions']
    BY <1>15 DEF SaveCompletes, CompleteWrite
  <2>6. version' \in [Grants -> Nat]
    BY <2>4, <2>5
  <2>3. (retired \subseteq Grants \cup {NoToken})'
    BY <1>15 DEF SaveCompletes
  <2> QED
    BY <1>15, <1>1, <2>1, <2>2, <2>3, <2>4, <2>6 DEF SaveCompletes, Succeed
<1>16. CASE SaveTears(c)
  BY <1>16, <1>1, <1>2 DEF SaveTears, WriteFails, SaveFailed, Fail
<1> QED
  BY <1>3, <1>4, <1>5, <1>6, <1>7, <1>8, <1>9, <1>10, <1>11, <1>12, <1>13, <1>14,
     <1>15, <1>16 DEF Progress

-----------------------------------------------------------------------------
(* What a step of c does to the callers. *)

\* How the steps that end a call, or a phase of it, leave c.
LEMMA Endings ==
  ASSUME TypeOK, NEW c \in Callers, NEW res, NEW cr,
         Finish(c, res, cr) \/ GoManual(c) \/ StartDeviceFlow(c)
  PROVE  /\ pc' = [pc EXCEPT ![c] = "idle"] \/ pc' = [pc EXCEPT ![c] = "device"]
         /\ pc'[c] = "idle" \/ (pc'[c] = "device" /\ via'[c] = "device")
         /\ presented'[c] = NoToken
         /\ \A d \in Callers \ {c} : refreshHolder = d => refreshHolder' = d
         /\ \A d \in Callers \ {c} : /\ pc'[d] = pc[d]
                                    /\ op'[d] = op[d]
                                    /\ via'[d] = via[d]
                                    /\ cred'[d] = cred[d]
                                    /\ presented'[d] = presented[d]
                                    /\ since'[d] = since[d]
BY DEF TypeOK, Finish, GoManual, StartDeviceFlow, Goto, Take, Forget, ReleaseRefresh,
   CallersAssumption

\* Nobody else's state changes, and nobody else's mutex is released.
LEMMA OthersStay ==
  ASSUME TypeOK, NEW c \in Callers, Progress(c)
  PROVE  /\ \A d \in Callers \ {c} : refreshHolder = d => refreshHolder' = d
         /\ \A d \in Callers \ {c} : /\ pc'[d] = pc[d]
                                    /\ op'[d] = op[d]
                                    /\ via'[d] = via[d]
                                    /\ cred'[d] = cred[d]
                                    /\ presented'[d] = presented[d]
                                    /\ since'[d] = since[d]
         /\ \/ tokenWriter' = tokenWriter
            \/ tokenWriter = None /\ tokenWriter' = c
            \/ At(c, "write") /\ tokenWriter' = None
<1>1. ASSUME NEW res, NEW cr, Finish(c, res, cr) \/ GoManual(c) \/ StartDeviceFlow(c)
      PROVE  /\ \A d \in Callers \ {c} : refreshHolder = d => refreshHolder' = d
             /\ \A d \in Callers \ {c} : /\ pc'[d] = pc[d]
                                        /\ op'[d] = op[d]
                                        /\ via'[d] = via[d]
                                        /\ cred'[d] = cred[d]
                                        /\ presented'[d] = presented[d]
                                        /\ since'[d] = since[d]
  BY <1>1, Endings
<1>2. CASE Load(c)
  BY <1>2, <1>1 DEF TypeOK, Load, Goto, Take
<1>3. CASE CheckExpiry(c)
  BY <1>3, <1>1 DEF TypeOK, CheckExpiry, Succeed, Goto
<1>4. CASE LockRefresh(c)
  BY <1>4 DEF TypeOK, LockRefresh, Goto
<1>5. CASE Recheck(c)
  BY <1>5, <1>1 DEF TypeOK, Recheck, Fail, Goto, Take
<1>6. CASE Reload(c)
  BY <1>6, <1>1 DEF TypeOK, Reload, Succeed, Fail
<1>7. CASE Refresh(c)
  BY <1>7, <1>1 DEF TypeOK, Refresh, Goto
<1>8. CASE RefreshAnswered(c)
  BY <1>8 DEF TypeOK, RefreshAnswered, Goto, Take, lockVars
<1>9. CASE RefreshFails(c)
  BY <1>9, <1>1 DEF RefreshFails
<1>10. CASE DeviceGranted(c)
  BY <1>10 DEF TypeOK, DeviceGranted, Goto, Take, lockVars
<1>11. CASE DeviceFails(c)
  BY <1>11, <1>1 DEF DeviceFails, Fail
<1>12. CASE BeginSave(c)
  BY <1>12 DEF TypeOK, BeginSave, Goto
<1>13. CASE SaveNotOpened(c)
  BY <1>13, <1>1 DEF SaveNotOpened, SaveFailed, Fail
<1>14. CASE SaveCompletes(c)
  BY <1>14, <1>1 DEF SaveCompletes, Succeed
<1>15. CASE SaveTears(c)
  BY <1>15, <1>1 DEF SaveTears, SaveFailed, Fail
<1> QED
  BY <1>2, <1>3, <1>4, <1>5, <1>6, <1>7, <1>8, <1>9, <1>10, <1>11, <1>12, <1>13,
     <1>14, <1>15 DEF Progress

\* A step of c leaves what the last calls of the others gave as it is.
LEMMA OutcomesStay ==
  ASSUME TypeOK, NEW c \in Callers, Progress(c), NEW d \in Callers \ {c}
  PROVE  outcome'[d] = outcome[d]
<1>1. ASSUME NEW res, NEW cr, Finish(c, res, cr) \/ GoManual(c) \/ StartDeviceFlow(c)
      PROVE  outcome'[d] = outcome[d]
  BY <1>1 DEF TypeOK, Finish, GoManual, StartDeviceFlow
<1>2. CASE Load(c) \/ CheckExpiry(c) \/ LockRefresh(c) \/ Recheck(c) \/ Reload(c)
  BY <1>1, <1>2 DEF Load, CheckExpiry, LockRefresh, Recheck, Reload, Succeed, Fail
<1>3. CASE Refresh(c) \/ RefreshAnswered(c) \/ RefreshFails(c)
  BY <1>1, <1>3 DEF Refresh, RefreshAnswered, RefreshFails
<1>4. CASE DeviceGranted(c) \/ DeviceFails(c)
  BY <1>1, <1>4 DEF DeviceGranted, DeviceFails, Fail
<1>5. CASE BeginSave(c) \/ SaveNotOpened(c) \/ SaveCompletes(c) \/ SaveTears(c)
  BY <1>1, <1>5 DEF BeginSave, SaveNotOpened, SaveCompletes, SaveTears, SaveFailed, Succeed, Fail
<1> QED
  BY <1>2, <1>3, <1>4, <1>5 DEF Progress

-----------------------------------------------------------------------------
(* The parts of the inductive invariant, one lemma for each. *)

LEMMA LockStep ==
  ASSUME TypeOK, LockInv, NEW c \in Callers, Progress(c)
  PROVE  LockInv'
<1> DEFINE Own(d) ==
      /\ pc[d] \in {"recheck", "reload", "refresh", "reply"} => refreshHolder = d
      /\ At(d, "device") => via[d] = "device"
      /\ Unsaved(d) => via[d] = "device" \/ (via[d] = "refresh" /\ refreshHolder = d)
      /\ At(d, "write") => tokenWriter = d
      /\ op[d] = "manual" => pc[d] \in {"device", "save", "write", "idle"}
<1>1. ASSUME NEW d \in Callers \ {c}
      PROVE  Own(d)'
  BY OthersStay, CallersAssumption DEF LockInv, Unsaved, At
<1>2. Own(c)'
  <2>1. ASSUME NEW res, NEW cr, Finish(c, res, cr) \/ GoManual(c) \/ StartDeviceFlow(c)
        PROVE  Own(c)'
    BY <2>1, Endings DEF Unsaved, At
  <2> USE DEF TypeOK, LockInv, Unsaved, At, Goto
  <2>2. CASE Load(c)
    BY <2>2, <2>1 DEF Load
  <2>3. CASE CheckExpiry(c)
    BY <2>3, <2>1 DEF CheckExpiry, Succeed
  <2>4. CASE LockRefresh(c)
    BY <2>4 DEF LockRefresh
  <2>5. CASE Recheck(c)
    BY <2>5, <2>1 DEF Recheck, Fail
  <2>6. CASE Reload(c)
    BY <2>6, <2>1 DEF Reload, Succeed, Fail
  <2>7. CASE Refresh(c)
    BY <2>7, <2>1 DEF Refresh
  <2>8. CASE RefreshAnswered(c)
    BY <2>8 DEF RefreshAnswered, lockVars
  <2>9. CASE RefreshFails(c)
    BY <2>9, <2>1 DEF RefreshFails
  <2>10. CASE DeviceGranted(c)
    BY <2>10 DEF DeviceGranted, lockVars
  <2>11. CASE DeviceFails(c)
    BY <2>11, <2>1 DEF DeviceFails, Fail
  <2>12. CASE BeginSave(c)
    BY <2>12 DEF BeginSave
  <2>13. CASE SaveNotOpened(c)
    BY <2>13, <2>1 DEF SaveNotOpened, SaveFailed, Fail
  <2>14. CASE SaveCompletes(c)
    BY <2>14, <2>1 DEF SaveCompletes, Succeed
  <2>15. CASE SaveTears(c)
    BY <2>15, <2>1 DEF SaveTears, SaveFailed, Fail
  <2> QED
    BY <2>2, <2>3, <2>4, <2>5, <2>6, <2>7, <2>8, <2>9, <2>10, <2>11, <2>12, <2>13,
       <2>14, <2>15 DEF Progress
<1> QED
  BY <1>1, <1>2 DEF LockInv

\* Only the three steps of a write section touch the file; grants are only
\* ever added.
LEMMA FileSteps ==
  ASSUME TypeOK, NEW c \in Callers, Progress(c)
  PROVE  /\ issued' >= issued
         /\ \/ UNCHANGED <<repoVars, tokenWriter, retired>>
            \/ BeginSave(c) \/ SaveCompletes(c) \/ SaveTears(c)
BY DEF Progress, TypeOK, OAuthTypeOK, Load, CheckExpiry, LockRefresh, Recheck, Reload,
   Refresh, RefreshAnswered, RefreshFails, DeviceGranted, DeviceFails, BeginSave,
   SaveNotOpened, SaveCompletes, SaveTears, OpenFails, ServiceFails, Issue, NextGrant,
   oauthVars, lockVars

LEMMA SinceStep ==
  ASSUME TypeOK, NEW c \in Callers, Progress(c)
  PROVE  since'[c] \in {0, since[c]}
<1>1. ASSUME NEW res, NEW cr, Finish(c, res, cr) \/ GoManual(c) \/ StartDeviceFlow(c)
      PROVE  since'[c] \in {0, since[c]}
  BY <1>1 DEF TypeOK, Finish, GoManual, StartDeviceFlow
<1> QED
  BY <1>1 DEF Progress, Load, CheckExpiry, LockRefresh, Recheck, Reload,
     Refresh, RefreshAnswered, RefreshFails, DeviceGranted, DeviceFails, BeginSave,
     SaveNotOpened, SaveCompletes, SaveTears, Succeed, Fail, SaveFailed

LEMMA StoreStep ==
  ASSUME TypeOK, TypeOK', LockInv, StoreInv, HandInv, NEW c \in Callers, Progress(c)
  PROVE  StoreInv'
<1>1. CASE UNCHANGED <<repoVars, tokenWriter, retired>>
  <2>1. Loads' = Loads /\ UNCHANGED <<file, version, versions, damaged, tokenWriter>>
    BY <1>1 DEF Loads, repoVars
  <2>2. \A d \in Callers : since'[d] <= versions'
    BY <2>1, OthersStay, SinceStep DEF StoreInv, TypeOK, RepoTypeOK
  <2> QED
    BY <2>1, <2>2, FileSteps
    DEF StoreInv, Genuine, TypeOK, OAuthTypeOK, Credential, Grants, NoToken
<1>2. CASE BeginSave(c)
  BY <1>2 DEF StoreInv, BeginSave, Truncate, Torn, Loads, CallersAssumption
<1>3. CASE SaveCompletes(c)
  <2>1. Genuine(cred[c])
    BY <1>3 DEF SaveCompletes, HandInv, Unsaved, At
  <2>2. Loads' /\ file'.creds = cred[c] /\ issued' = issued /\ versions' = versions + 1
    BY <1>3 DEF SaveCompletes, CompleteWrite, Holding, Loads, oauthVars
  <2>3. version'[cred[c].grant] = versions'
    BY <1>3, <2>1 DEF SaveCompletes, CompleteWrite, TypeOK, RepoTypeOK, Genuine, Credential
  <2>4. \A d \in Callers : since'[d] <= versions'
    BY <2>2, OthersStay, SinceStep DEF StoreInv, TypeOK, RepoTypeOK
  <2> QED
    BY <2>1, <2>2, <2>3, <2>4 DEF StoreInv, Genuine, TypeOK, RepoTypeOK
<1>4. CASE SaveTears(c)
  <2>1. \A d \in Callers : since'[d] <= versions'
    BY <1>4, OthersStay, SinceStep DEF SaveTears, WriteFails, StoreInv, TypeOK, RepoTypeOK
  <2> QED
    BY <1>4, <2>1 DEF SaveTears, WriteFails, StoreInv, Genuine, Loads, oauthVars
<1> QED
  BY <1>1, <1>2, <1>3, <1>4, FileSteps

\* Genuine after the step.
GenuineNow(cr) == cr \in Credential /\ cr.grant <= issued' /\ cr.refresh <= issued'

\* A credential that was genuine stays genuine.
LEMMA GenuineStays ==
  ASSUME TypeOK, TypeOK', issued' >= issued, NEW cr, Genuine(cr)
  PROVE  GenuineNow(cr)
BY DEF Genuine, GenuineNow, TypeOK, OAuthTypeOK, Credential, Grants, NoToken

LEMMA HandStep ==
  ASSUME TypeOK, TypeOK', StoreInv, HandInv, TokenInv, NEW c \in Callers, Progress(c)
  PROVE  HandInv'
<1> DEFINE Hand(d) ==
      /\ cred[d] # NoCredential => Genuine(cred[d])
      /\ Loaded(d) \/ Unsaved(d) => cred[d] # NoCredential
      /\ At(d, "check") =>
           version[cred[d].grant] > 0 /\ version[cred[d].grant] >= since[d]
<1>1. \A g \in Grants : version'[g] \in {version[g], versions + 1}
  BY FileSteps DEF TypeOK, RepoTypeOK, repoVars, BeginSave, Truncate, SaveCompletes,
     CompleteWrite, SaveTears, WriteFails
<1>2. ASSUME NEW d \in Callers \ {c}
      PROVE  Hand(d)'
  <2>1. Hand(d) /\ Loaded(d)' = Loaded(d) /\ Unsaved(d)' = Unsaved(d)
    BY OthersStay DEF HandInv, Loaded, Unsaved
  <2>2. cred'[d] # NoCredential => Genuine(cred[d])'
    BY <2>1, OthersStay, FileSteps, GenuineStays DEF Genuine, GenuineNow
  <2>3. At(d, "check") =>
          version'[cred[d].grant] > 0 /\ version'[cred[d].grant] >= since[d]
    <3> SUFFICES ASSUME At(d, "check")
        PROVE version'[cred[d].grant] > 0 /\ version'[cred[d].grant] >= since[d]
      OBVIOUS
    <3>1. cred[d].grant \in Grants
      BY <2>1 DEF Loaded, At, Genuine, Credential
    <3> QED
      BY <3>1, <2>1, <1>1 DEF StoreInv, TypeOK, RepoTypeOK
  <2> QED
    BY <2>1, <2>2, <2>3, OthersStay DEF At
<1>3. Hand(c)'
  <2> USE DEF Loaded, Unsaved, At
  <2>1. ASSUME NEW res, NEW cr, Finish(c, res, cr) \/ GoManual(c) \/ StartDeviceFlow(c),
               cr # NoCredential => GenuineNow(cr)
        PROVE  Hand(c)'
    <3>1. cred'[c] \in {cr, NoCredential}
      BY <2>1 DEF Finish, GoManual, StartDeviceFlow, Take, TypeOK
    <3> QED
      BY <2>1, <3>1, Endings DEF Genuine, GenuineNow
  <2>2. Loads => GenuineNow(file.creds)
    BY FileSteps, GenuineStays DEF StoreInv
  <2>3. cred[c] # NoCredential => GenuineNow(cred[c])
    BY FileSteps, GenuineStays DEF HandInv
  <2>18. ASSUME cred'[c] # NoCredential, GenuineNow(cred'[c]), pc'[c] # "check"
         PROVE  Hand(c)'
    BY <2>18 DEF Genuine, GenuineNow
  <2>19. ASSUME pc'[c] \in {"load", "device"}, cred'[c] = NoCredential
         PROVE  Hand(c)'
    BY <2>19
  <2>20. ASSUME cred'[c] = cred[c], Loaded(c) \/ Unsaved(c), pc'[c] # "check"
         PROVE  Hand(c)'
    BY <2>20, <2>3, <2>18 DEF HandInv
  <2> USE DEF TypeOK, Goto, Take
  <2>4. CASE Load(c)
    <3>1. CASE Loads /\ Take(c, file.creds) /\ UNCHANGED since
      <4>1. file.creds # NoCredential
        BY <3>1 DEF StoreInv, Genuine, Credential, NoCredential, Grants
      <4>2. cred'[c] = file.creds /\ since'[c] = since[c] /\ version' = version
        BY <2>4, <3>1 DEF Load, repoVars
      <4> QED
        BY <2>2, <3>1, <4>1, <4>2 DEF StoreInv, Genuine, GenuineNow, RepoTypeOK
    <3>2. CASE StartDeviceFlow(c)
      BY <2>1, <3>2
    <3> QED
      BY <2>4, <3>1, <3>2 DEF Load
  <2>5. CASE CheckExpiry(c)
    BY <2>5, <2>1, <2>3, <2>20 DEF CheckExpiry, Succeed
  <2>6. CASE LockRefresh(c)
    BY <2>6, <2>20 DEF LockRefresh
  <2>7. CASE Recheck(c)
    <3>1. CASE /\ Loads /\ Take(c, file.creds)
               /\ Goto(c, IF IsExpired(file.creds) THEN "refresh" ELSE "reload")
      <4>1. file.creds # NoCredential
        BY <3>1 DEF StoreInv, Genuine, Credential, NoCredential, Grants
      <4> QED
        BY <2>2, <2>18, <3>1, <4>1
    <3>2. CASE Fail(c)
      BY <2>1, <3>2 DEF Fail
    <3> QED
      BY <2>7, <3>1, <3>2 DEF Recheck
  <2>8. CASE Reload(c)
    BY <2>8, <2>1, <2>2 DEF Reload, Succeed, Fail, StoreInv
  <2>9. CASE Refresh(c)
    BY <2>9, <2>1, <2>20 DEF Refresh
  <2>10. CASE RefreshAnswered(c)
    <3>1. cred[c] \in Credential /\ issued' = NextGrant /\ NextGrant \in Grants
      BY <2>10 DEF RefreshAnswered, Issue, HandInv, Genuine, NextGrant, Grants, OAuthTypeOK
    <3>2. PICK t \in TokensAfterRefresh(presented[c]) : Take(c, Answer(t, cred[c].url))
      BY <2>10 DEF RefreshAnswered
    <3>4. t \in Grants \cup {NoToken} /\ t <= NextGrant
      BY <3>1, <3>2 DEF TokensAfterRefresh, TokenInv, NextGrant, NoToken, OAuthTypeOK, Grants
    <3>3. GenuineNow(Answer(t, cred[c].url))
      BY <3>1, <3>4 DEF GenuineNow, Answer, NextGrant, Credential
    <3> QED
      BY <2>10, <2>18, <3>1, <3>2, <3>3
      DEF RefreshAnswered, Answer, NoCredential, NextGrant, Grants
  <2>11. CASE RefreshFails(c)
    BY <2>11, <2>1 DEF RefreshFails
  <2>12. CASE DeviceGranted(c)
    <3>1. PICK url \in Resource, t \in TokensAfterDevice :
            Issue(url) /\ Take(c, Answer(t, url))
      BY <2>12 DEF DeviceGranted
    <3>2. issued' = NextGrant /\ NextGrant \in Grants
      BY <3>1 DEF Issue, NextGrant, Grants, OAuthTypeOK
    <3>3. GenuineNow(Answer(t, url))
      BY <3>1, <3>2
      DEF GenuineNow, Answer, TokensAfterDevice, NextGrant, Credential, NoToken, Grants
    <3> QED
      BY <2>12, <2>18, <3>1, <3>2, <3>3
      DEF DeviceGranted, Answer, NoCredential, NextGrant, Grants
  <2>13. CASE DeviceFails(c)
    BY <2>13, <2>1 DEF DeviceFails, Fail
  <2>14. CASE BeginSave(c)
    BY <2>14, <2>20 DEF BeginSave
  <2>15. CASE SaveNotOpened(c)
    BY <2>15, <2>1 DEF SaveNotOpened, SaveFailed, Fail
  <2>16. CASE SaveCompletes(c)
    BY <2>16, <2>1, <2>3 DEF SaveCompletes, Succeed
  <2>17. CASE SaveTears(c)
    BY <2>17, <2>1 DEF SaveTears, SaveFailed, Fail
  <2> QED
    BY <2>4, <2>5, <2>6, <2>7, <2>8, <2>9, <2>10, <2>11, <2>12, <2>13, <2>14, <2>15,
       <2>16, <2>17 DEF Progress
<1> QED
  BY <1>2, <1>3 DEF HandInv

\* A token is retired only by the save of the refresh that replaces it, and
\* then nobody else is using it.
LEMMA RetireStep ==
  ASSUME TypeOK, LockInv, HandInv, TokenInv, FreshInv, NEW c \in Callers, Progress(c)
  PROVE  /\ retired \subseteq retired'
         /\ NoToken \notin retired' /\ \A t \in retired' : t <= issued
         /\ Loads' => file'.creds.refresh \notin retired'
         /\ \A d \in Callers \ {c} :
              /\ InUse(d) \notin retired'
              /\ Unsaved(d) => /\ cred[d].refresh \notin retired'
                              /\ cred[d].grant \notin retired'
         /\ ~SaveCompletes(c) => retired' = retired
<1>1. CASE SaveCompletes(c) /\ via[c] = "refresh" /\ cred[c].refresh # presented[c]
  <2>1. retired' = retired \cup {presented[c]}
    BY <1>1 DEF SaveCompletes
  <2>2. Unsaved(c) /\ refreshHolder = c /\ presented[c] # NoToken
    BY <1>1 DEF SaveCompletes, At, Unsaved, LockInv, TokenInv
  <2>3. ASSUME NEW d \in Callers \ {c}
        PROVE  ~(pc[d] \in {"refresh", "reply"}) /\ ~(Unsaved(d) /\ via[d] = "refresh")
    BY <2>2, <2>3 DEF LockInv
  <2>4. ASSUME NEW d \in Callers \ {c}
        PROVE  presented[d] = NoToken /\ InUse(d) = NoToken
    BY <2>3, <2>4 DEF TokenInv, InUse, At
  <2>5. ASSUME NEW d \in Callers \ {c}, Unsaved(d)
        PROVE  cred[d].refresh # presented[c] /\ cred[d].grant # presented[c]
    <3>1. cred[d].refresh \in {NoToken, cred[d].grant, presented[d]}
      BY <2>5 DEF FreshInv
    <3>2. InUse(c) = presented[c] /\ InUse(c) # cred[d].grant
      BY <2>2, <2>5 DEF FreshInv, InUse, At, Unsaved
    <3> QED
      BY <3>1, <3>2, <2>2, <2>4
  <2>6. file'.creds = cred[c]
    BY <1>1 DEF SaveCompletes, CompleteWrite, Holding
  <2>7. cred[c].refresh \notin retired'
    BY <1>1, <2>1, <2>2 DEF TokenInv
  <2>8. \A t \in retired' : t <= issued
    BY <2>1 DEF TokenInv
  <2>9. \A d \in Callers \ {c} :
          /\ InUse(d) \notin retired'
          /\ Unsaved(d) => cred[d].refresh \notin retired' /\ cred[d].grant \notin retired'
    BY <2>1, <2>2, <2>4, <2>5 DEF TokenInv, FreshInv
  <2> QED
    BY <1>1, <2>1, <2>2, <2>6, <2>7, <2>8, <2>9 DEF TokenInv
<1>2. CASE SaveCompletes(c) /\ ~(via[c] = "refresh" /\ cred[c].refresh # presented[c])
  <2>1. retired' = retired /\ file'.creds = cred[c] /\ Unsaved(c)
    BY <1>2 DEF SaveCompletes, CompleteWrite, Holding, At, Unsaved
  <2> QED
    BY <2>1 DEF TokenInv, FreshInv
<1>3. CASE ~SaveCompletes(c)
  <2>1. \/ UNCHANGED <<file, retired>>
        \/ retired' = retired /\ file' = Torn
    BY <1>3, FileSteps DEF repoVars, BeginSave, Truncate, SaveTears, WriteFails
  <2>2. Loads' => Loads /\ file' = file
    BY <2>1 DEF Loads, Torn
  <2> QED
    BY <1>3, <2>1, <2>2 DEF TokenInv, FreshInv
<1> QED
  BY <1>1, <1>2, <1>3

LEMMA TokenStep ==
  ASSUME TypeOK, TypeOK', LockInv, StoreInv, HandInv, TokenInv, FreshInv,
         NEW c \in Callers, Progress(c)
  PROVE  TokenInv'
<1> DEFINE Tok(d) ==
      /\ presented[d] # NoToken => At(d, "reply") \/ (Unsaved(d) /\ via[d] = "refresh")
      /\ At(d, "reply") \/ (Unsaved(d) /\ via[d] = "refresh") => presented[d] # NoToken
      /\ presented[d] <= issued
      /\ InUse(d) \notin retired
      /\ Unsaved(d) => cred[d].refresh \notin retired
<1>1. ASSUME NEW d \in Callers \ {c}
      PROVE  Tok(d)'
  <2>1. InUse(d)' = InUse(d) /\ Unsaved(d)' = Unsaved(d) /\ At(d, "reply")' = At(d, "reply")
    BY OthersStay DEF InUse, Unsaved, At
  <2>2. presented'[d] <= issued'
    <3>1. presented'[d] = presented[d]
      BY OthersStay
    <3>2. presented[d] <= issued
      BY DEF TokenInv
    <3>3. issued <= issued'
      BY FileSteps
    <3>4. presented[d] \in Nat /\ issued \in Nat /\ issued' \in Nat
      BY DEF TypeOK, OAuthTypeOK, Grants, NoToken
    <3> QED
      BY <3>1, <3>2, <3>3, <3>4
  <2> QED
    BY <2>1, <2>2, OthersStay, RetireStep DEF TokenInv
<1>2. Tok(c)'
  <2> USE DEF Unsaved, At, InUse
  <2>1. ASSUME NEW res, NEW cr, Finish(c, res, cr) \/ GoManual(c) \/ StartDeviceFlow(c)
        PROVE  Tok(c)'
    <3>1. presented'[c] = NoToken /\ pc'[c] \in {"idle", "device"}
      BY <2>1, Endings
    <3>2. presented'[c] <= issued'
      BY <3>1 DEF TypeOK, OAuthTypeOK, NoToken
    <3> QED
      BY <3>1, <3>2, RetireStep
  <2>2. ASSUME ~SaveCompletes(c), presented'[c] = presented[c], via'[c] = via[c],
               pc[c] \notin {"refresh", "reply"}, pc'[c] \notin {"refresh", "reply"},
               Unsaved(c)' = Unsaved(c), cred'[c] = cred[c] \/ ~Unsaved(c)
        PROVE  Tok(c)'
    BY <2>2, RetireStep, FileSteps DEF TokenInv, TypeOK, OAuthTypeOK, NoToken, Grants
  <2> USE DEF TypeOK, Goto, Take
  <2>3. CASE Load(c)
    BY <2>3, <2>1, <2>2 DEF Load, SaveCompletes
  <2>4. CASE CheckExpiry(c)
    BY <2>4, <2>1, <2>2 DEF CheckExpiry, Succeed, SaveCompletes
  <2>5. CASE LockRefresh(c)
    BY <2>5, <2>2 DEF LockRefresh, SaveCompletes
  <2>6. CASE Recheck(c)
    <3>1. CASE /\ Loads /\ Take(c, file.creds) /\ UNCHANGED presented
               /\ Goto(c, IF IsExpired(file.creds) THEN "refresh" ELSE "reload")
      <4>1. /\ cred'[c] = file.creds /\ presented'[c] = NoToken /\ retired' = retired
            /\ pc'[c] \in {"refresh", "reload"}
        BY <2>6, <3>1 DEF Recheck, TokenInv
      <4>2. presented'[c] <= issued'
        BY <4>1 DEF OAuthTypeOK, NoToken
      <4> QED
        BY <4>1, <4>2, <3>1 DEF TokenInv
    <3>2. CASE Fail(c)
      BY <3>2, <2>1 DEF Fail
    <3> QED
      BY <2>6, <3>1, <3>2 DEF Recheck
  <2>7. CASE Reload(c)
    BY <2>7, <2>1 DEF Reload, Succeed, Fail
  <2>8. CASE Refresh(c)
    <3>1. CASE cred[c].refresh = NoToken
      BY <2>8, <3>1, <2>1 DEF Refresh
    <3>2. CASE cred[c].refresh # NoToken
      <4>1. presented'[c] = cred[c].refresh /\ pc'[c] = "reply" /\ UNCHANGED <<retired, issued>>
        BY <2>8, <3>2 DEF Refresh, oauthVars
      <4>2. cred[c].refresh \notin retired /\ cred[c].refresh <= issued
        BY <2>8 DEF Refresh, TokenInv, HandInv, Loaded, Genuine
      <4> QED
        BY <3>2, <4>1, <4>2
    <3> QED
      BY <3>1, <3>2
  <2>9. CASE RefreshAnswered(c)
    <3>1. PICK t \in TokensAfterRefresh(presented[c]) : Take(c, Answer(t, cred[c].url))
      BY <2>9 DEF RefreshAnswered
    <3>2. /\ cred'[c].refresh = t /\ presented'[c] = presented[c] /\ presented[c] # NoToken
          /\ pc'[c] = "save" /\ via'[c] = "refresh" /\ retired' = retired
          /\ presented[c] \notin retired
      BY <2>9, <3>1 DEF RefreshAnswered, Answer, TokenInv
    <3>3. t \notin retired
      BY <3>1, <3>2 DEF TokensAfterRefresh, TokenInv, NextGrant, OAuthTypeOK
    <3>4. presented'[c] <= issued'
      BY <3>2, FileSteps DEF TokenInv, OAuthTypeOK, NoToken, Grants
    <3> QED
      BY <3>2, <3>3, <3>4
  <2>10. CASE RefreshFails(c)
    BY <2>10, <2>1 DEF RefreshFails
  <2>11. CASE DeviceGranted(c)
    <3>1. PICK url \in Resource, t \in TokensAfterDevice :
            Issue(url) /\ Take(c, Answer(t, url))
      BY <2>11 DEF DeviceGranted
    <3>2. /\ cred'[c].refresh = t /\ presented'[c] = NoToken /\ pc'[c] = "save"
          /\ via'[c] = "device" /\ retired' = retired
      BY <2>11, <3>1 DEF DeviceGranted, Answer, TokenInv, LockInv
    <3>3. t \notin retired
      BY <3>1, <3>2 DEF TokensAfterDevice, TokenInv, NextGrant, OAuthTypeOK
    <3>4. presented'[c] <= issued'
      BY <3>2 DEF OAuthTypeOK, NoToken
    <3> QED
      BY <3>2, <3>3, <3>4 DEF TokenInv
  <2>12. CASE DeviceFails(c)
    BY <2>12, <2>1 DEF DeviceFails, Fail
  <2>13. CASE BeginSave(c)
    BY <2>13, <2>2 DEF BeginSave, SaveCompletes
  <2>14. CASE SaveNotOpened(c)
    BY <2>14, <2>1 DEF SaveNotOpened, SaveFailed, Fail
  <2>15. CASE SaveCompletes(c)
    BY <2>15, <2>1 DEF SaveCompletes, Succeed
  <2>16. CASE SaveTears(c)
    BY <2>16, <2>1 DEF SaveTears, SaveFailed, Fail
  <2> QED
    BY <2>3, <2>4, <2>5, <2>6, <2>7, <2>8, <2>9, <2>10, <2>11, <2>12, <2>13, <2>14,
       <2>15, <2>16 DEF Progress
<1>3. \A t \in retired' : t <= issued'
  BY RetireStep, FileSteps DEF TypeOK, OAuthTypeOK, NoToken, Grants
<1> QED
  BY <1>1, <1>2, <1>3, RetireStep DEF TokenInv

\* The token c uses after a step: none, the one it used, or the stored one.
LEMMA InUseStep ==
  ASSUME TypeOK, TokenInv, LockInv, NEW c \in Callers, Progress(c)
  PROVE  InUse(c)' \in {NoToken, InUse(c)} \/ (Loads /\ InUse(c)' = file.creds.refresh)
<1> USE DEF TypeOK, InUse, At, Goto, Take, Unsaved
<1>1. ASSUME NEW res, NEW cr, Finish(c, res, cr) \/ GoManual(c) \/ StartDeviceFlow(c)
      PROVE  InUse(c)' = NoToken
  BY <1>1, Endings
<1>2. CASE Load(c)
  BY <1>2, <1>1 DEF Load
<1>3. CASE CheckExpiry(c)
  BY <1>3, <1>1 DEF CheckExpiry, Succeed
<1>4. CASE LockRefresh(c)
  BY <1>4 DEF LockRefresh
<1>5. CASE Recheck(c)
  BY <1>5, <1>1 DEF Recheck, Fail
<1>6. CASE Reload(c)
  BY <1>6, <1>1 DEF Reload, Succeed, Fail
<1>7. CASE Refresh(c)
  BY <1>7, <1>1 DEF Refresh
<1>8. CASE RefreshAnswered(c)
  BY <1>8 DEF RefreshAnswered
<1>9. CASE RefreshFails(c)
  BY <1>9, <1>1 DEF RefreshFails
<1>10. CASE DeviceGranted(c)
  BY <1>10 DEF DeviceGranted
<1>11. CASE DeviceFails(c)
  BY <1>11, <1>1 DEF DeviceFails, Fail
<1>12. CASE BeginSave(c)
  BY <1>12 DEF BeginSave
<1>13. CASE SaveNotOpened(c)
  BY <1>13, <1>1 DEF SaveNotOpened, SaveFailed, Fail
<1>14. CASE SaveCompletes(c)
  BY <1>14, <1>1 DEF SaveCompletes, Succeed
<1>15. CASE SaveTears(c)
  BY <1>15, <1>1 DEF SaveTears, SaveFailed, Fail
<1> QED
  BY <1>2, <1>3, <1>4, <1>5, <1>6, <1>7, <1>8, <1>9, <1>10, <1>11, <1>12, <1>13,
     <1>14, <1>15 DEF Progress

\* Unsaved credentials come only from an answer of the token endpoint.
LEMMA UnsavedStep ==
  ASSUME TypeOK, TokenInv, LockInv, NEW c \in Callers, Progress(c), Unsaved(c)'
  PROVE  \/ BeginSave(c)
         \/ /\ cred'[c].grant = issued + 1
            /\ cred'[c].refresh \in {NoToken, issued + 1, presented'[c]}
            /\ UNCHANGED <<file, retired, presented>>
            /\ InUse(c)' = presented[c]
<1> USE DEF TypeOK, InUse, At, Goto, Take, Unsaved
<1>1. ASSUME NEW res, NEW cr, Finish(c, res, cr) \/ GoManual(c) \/ StartDeviceFlow(c)
      PROVE  FALSE
  BY <1>1, Endings
<1>2. CASE Load(c)
  BY <1>2, <1>1 DEF Load
<1>3. CASE CheckExpiry(c)
  BY <1>3, <1>1 DEF CheckExpiry, Succeed
<1>4. CASE LockRefresh(c)
  BY <1>4 DEF LockRefresh
<1>5. CASE Recheck(c)
  BY <1>5, <1>1 DEF Recheck, Fail
<1>6. CASE Reload(c)
  BY <1>6, <1>1 DEF Reload, Succeed, Fail
<1>7. CASE Refresh(c)
  BY <1>7, <1>1 DEF Refresh
<1>8. CASE RefreshAnswered(c)
  BY <1>8 DEF RefreshAnswered, TokensAfterRefresh, Answer, NextGrant, repoVars
<1>9. CASE RefreshFails(c)
  BY <1>9, <1>1 DEF RefreshFails
<1>10. CASE DeviceGranted(c)
  BY <1>10 DEF DeviceGranted, TokensAfterDevice, Answer, NextGrant, repoVars
<1>11. CASE DeviceFails(c)
  BY <1>11, <1>1 DEF DeviceFails, Fail
<1>12. CASE SaveNotOpened(c)
  BY <1>12, <1>1 DEF SaveNotOpened, SaveFailed, Fail
<1>13. CASE SaveCompletes(c)
  BY <1>13, <1>1 DEF SaveCompletes, Succeed
<1>14. CASE SaveTears(c)
  BY <1>14, <1>1 DEF SaveTears, SaveFailed, Fail
<1> QED
  BY <1>2, <1>3, <1>4, <1>5, <1>6, <1>7, <1>8, <1>9, <1>10, <1>11, <1>12, <1>13,
     <1>14 DEF Progress

LEMMA FreshStep ==
  ASSUME TypeOK, TypeOK', LockInv, StoreInv, HandInv, TokenInv, FreshInv,
         NEW c \in Callers, Progress(c)
  PROVE  FreshInv'
<1> DEFINE Fresh(d) ==
      /\ cred[d].refresh \in {NoToken, cred[d].grant, presented[d]}
      /\ cred[d].grant \notin retired
      /\ Loads => file.creds.refresh # cred[d].grant
      /\ \A e \in Callers : InUse(e) # cred[d].grant
      /\ \A e \in Callers \ {d} : Unsaved(e) => cred[e].grant # cred[d].grant
<1>1. \A e \in Callers \ {c} : /\ InUse(e)' = InUse(e) /\ Unsaved(e)' = Unsaved(e)
                              /\ cred'[e] = cred[e] /\ presented'[e] = presented[e]
  BY OthersStay DEF InUse, Unsaved, At
<1>2. \A e \in Callers : Unsaved(e) =>
        cred[e].grant # NoToken /\ cred[e].grant <= issued /\ cred[e].grant \in Nat
  BY DEF HandInv, Genuine, Credential, NoToken, Grants
<1>3. \/ file' = file
      \/ ~Loads'
      \/ Unsaved(c) /\ file'.creds = cred[c]
  <2>1. CASE UNCHANGED <<repoVars, tokenWriter, retired>>
    BY <2>1 DEF repoVars
  <2>2. CASE BeginSave(c)
    BY <2>2 DEF BeginSave, Truncate, Torn, Loads
  <2>3. CASE SaveCompletes(c)
    BY <2>3 DEF SaveCompletes, CompleteWrite, Holding, Unsaved, At
  <2>4. CASE SaveTears(c)
    BY <2>4 DEF SaveTears, WriteFails
  <2> QED
    BY <2>1, <2>2, <2>3, <2>4, FileSteps
<1>4. ASSUME NEW d \in Callers \ {c}, Unsaved(d)
      PROVE  Fresh(d)'
  <2>1. Fresh(d)
    BY <1>4 DEF FreshInv
  <2>2. Loads' => file'.creds.refresh # cred[d].grant
    <3>1. CASE file' = file
      BY <2>1, <3>1 DEF Loads
    <3>2. CASE Unsaved(c) /\ file'.creds = cred[c]
      <4>1. cred[c].refresh \in {NoToken, cred[c].grant, presented[c]}
        BY <3>2 DEF FreshInv
      <4>2. cred[c].grant # cred[d].grant /\ InUse(c) = presented[c]
        BY <2>1, <3>2 DEF InUse, At, Unsaved
      <4> QED
        BY <1>2, <1>4, <2>1, <3>2, <4>1, <4>2
    <3> QED
      BY <1>3, <3>1, <3>2
  <2>3. InUse(c)' # cred[d].grant
    BY <1>2, <1>4, <2>1, InUseStep
  <2>4. Unsaved(c)' => cred'[c].grant # cred[d].grant
    <3>1. CASE BeginSave(c)
      BY <2>1, <3>1 DEF BeginSave, Unsaved, At
    <3>2. CASE cred'[c].grant = issued + 1
      BY <1>2, <1>4, <3>2 DEF TypeOK, OAuthTypeOK
    <3> QED
      BY <3>1, <3>2, UnsavedStep
  <2> QED
    BY <1>1, <1>4, <2>1, <2>2, <2>3, <2>4, RetireStep
<1>5. ASSUME Unsaved(c)'
      PROVE  Fresh(c)'
  <2>1. CASE BeginSave(c)
    <3>1. /\ Unsaved(c) /\ cred' = cred /\ presented' = presented /\ retired' = retired
          /\ ~Loads' /\ InUse(c)' = InUse(c)
      BY <2>1 DEF BeginSave, Truncate, Torn, Loads, Unsaved, At, InUse, Goto, TypeOK
    <3> QED
      BY <1>1, <3>1 DEF FreshInv
  <2>2. CASE /\ cred'[c].grant = issued + 1
             /\ cred'[c].refresh \in {NoToken, issued + 1, presented'[c]}
             /\ UNCHANGED <<file, retired, presented>>
             /\ InUse(c)' = presented[c]
    <3>1. \A e \in Callers : InUse(e)' <= issued /\ InUse(e)' \in Nat
      <4>1. \A e \in Callers : presented[e] <= issued /\ presented[e] \in Nat
        BY DEF TokenInv, TypeOK, Grants, NoToken
      <4>2. \A e \in Callers : At(e, "refresh") =>
              cred[e].refresh <= issued /\ cred[e].refresh \in Nat
        BY DEF HandInv, Loaded, At, Genuine, Credential, Grants, NoToken
      <4> QED
        BY <1>1, <2>2, <4>1, <4>2 DEF InUse
    <3>2. Loads' => file'.creds.refresh <= issued /\ file'.creds.refresh \in Nat
      BY <2>2 DEF StoreInv, Loads, Genuine, Credential, Grants, NoToken
    <3> QED
      BY <1>1, <1>2, <2>2, <3>1, <3>2 DEF TokenInv, TypeOK, OAuthTypeOK
  <2> QED
    BY <1>5, <2>1, <2>2, UnsavedStep
<1> QED
  BY <1>1, <1>4, <1>5 DEF FreshInv

LEMMA ResourceStep ==
  ASSUME TypeOK, TypeOK', StoreInv, HandInv, TokenMatchesResource,
         NEW c \in Callers, Progress(c)
  PROVE  TokenMatchesResource'
<1> DEFINE Match(d) == cred[d] # NoCredential => cred[d].url = home[cred[d].grant]
<1>1. ASSUME NEW g \in Grants, g <= issued
      PROVE  home'[g] = home[g]
  <2>1. home' = home \/ \E url : Issue(url)
    BY DEF Progress, Load, CheckExpiry, LockRefresh, Recheck, Reload, Refresh,
       RefreshAnswered, RefreshFails, DeviceGranted, DeviceFails, BeginSave,
       SaveNotOpened, SaveCompletes, SaveTears, ServiceFails, oauthVars
  <2> QED
    BY <1>1, <2>1 DEF TypeOK, OAuthTypeOK, Issue, NextGrant, Grants
<1>2. ASSUME NEW d \in Callers, cred[d] # NoCredential
      PROVE  cred[d].url = home'[cred[d].grant]
  BY <1>1, <1>2 DEF HandInv, Genuine, Credential, TokenMatchesResource
<1>3. Loads => file.creds.url = home'[file.creds.grant]
  BY <1>1 DEF StoreInv, Genuine, Credential, TokenMatchesResource
<1>4. ASSUME NEW d \in Callers \ {c}
      PROVE  Match(d)'
  BY <1>2, OthersStay
<1>5. Match(c)'
  <2>1. ASSUME NEW res, NEW cr, Finish(c, res, cr) \/ GoManual(c) \/ StartDeviceFlow(c),
               cr # NoCredential => cr.url = home'[cr.grant]
        PROVE  Match(c)'
    <3>1. cred'[c] \in {cr, NoCredential}
      BY <2>1 DEF Finish, GoManual, StartDeviceFlow, Take, TypeOK
    <3> QED
      BY <2>1, <3>1
  <2>2. CASE cred'[c] = cred[c]
    BY <1>2, <2>2
  <2>3. CASE Loads /\ cred'[c] = file.creds
    BY <1>3, <2>3
  <2> USE DEF TypeOK, Take
  <2>4. CASE Load(c)
    BY <2>4, <2>1, <2>3 DEF Load
  <2>5. CASE CheckExpiry(c)
    BY <1>2, <2>5, <2>1, <2>2 DEF CheckExpiry, Succeed
  <2>6. CASE LockRefresh(c)
    BY <2>6, <2>2 DEF LockRefresh
  <2>7. CASE Recheck(c)
    BY <2>7, <2>1, <2>3 DEF Recheck, Fail
  <2>8. CASE Reload(c)
    BY <1>3, <2>8, <2>1 DEF Reload, Succeed, Fail
  <2>9. CASE Refresh(c)
    BY <2>9, <2>1, <2>2 DEF Refresh
  <2>10. CASE RefreshAnswered(c)
    <3>1. PICK t \in TokensAfterRefresh(presented[c]) : Take(c, Answer(t, cred[c].url))
      BY <2>10 DEF RefreshAnswered
    <3>2. /\ home' = [home EXCEPT ![NextGrant] = home[cred[c].grant]] /\ NextGrant \in Grants
          /\ cred[c].url = home[cred[c].grant]
      BY <2>10
      DEF RefreshAnswered, Issue, NextGrant, Grants, OAuthTypeOK, HandInv, Loaded, At,
          TokenMatchesResource
    <3> QED
      BY <3>1, <3>2 DEF Answer, OAuthTypeOK
  <2>11. CASE RefreshFails(c)
    BY <2>11, <2>1 DEF RefreshFails
  <2>12. CASE DeviceGranted(c)
    <3>1. PICK url \in Resource, t \in TokensAfterDevice :
            Issue(url) /\ Take(c, Answer(t, url))
      BY <2>12 DEF DeviceGranted
    <3>2. home' = [home EXCEPT ![NextGrant] = url] /\ NextGrant \in Grants
      BY <3>1 DEF Issue, NextGrant, Grants, OAuthTypeOK
    <3> QED
      BY <3>1, <3>2 DEF Answer, OAuthTypeOK
  <2>13. CASE DeviceFails(c)
    BY <2>13, <2>1 DEF DeviceFails, Fail
  <2>14. CASE BeginSave(c)
    BY <2>14, <2>2 DEF BeginSave
  <2>15. CASE SaveNotOpened(c)
    BY <2>15, <2>1 DEF SaveNotOpened, SaveFailed, Fail
  <2>16. CASE SaveCompletes(c)
    BY <1>2, <2>16, <2>1 DEF SaveCompletes, Succeed
  <2>17. CASE SaveTears(c)
    BY <2>17, <2>1 DEF SaveTears, SaveFailed, Fail
  <2> QED
    BY <2>4, <2>5, <2>6, <2>7, <2>8, <2>9, <2>10, <2>11, <2>12, <2>13, <2>14, <2>15,
       <2>16, <2>17 DEF Progress
<1>6. Loads' => file'.creds.url = home'[file'.creds.grant]
  <2>1. CASE UNCHANGED <<repoVars, tokenWriter, retired>>
    BY <1>3, <2>1 DEF repoVars, Loads
  <2>2. CASE BeginSave(c)
    BY <2>2 DEF BeginSave, Truncate, Torn, Loads
  <2>3. CASE SaveCompletes(c)
    <3>1. cred[c] # NoCredential /\ file'.creds = cred[c]
      BY <2>3 DEF SaveCompletes, CompleteWrite, Holding, HandInv, Unsaved, At
    <3> QED
      BY <1>2, <3>1
  <2>4. CASE SaveTears(c)
    BY <1>3, <2>4 DEF SaveTears, WriteFails, Loads
  <2> QED
    BY <2>1, <2>2, <2>3, <2>4, FileSteps
<1> QED
  BY <1>4, <1>5, <1>6 DEF TokenMatchesResource

-----------------------------------------------------------------------------
(* The inductive invariant. *)

LEMMA InitIInv == Init => IInv
<1> SUFFICES ASSUME Init PROVE IInv
  OBVIOUS
<1> USE DEF Init, RepoInit, OAuthInit, Absent, Loads
<1>1. TypeOK
  BY DEF TypeOK, RepoTypeOK, OAuthTypeOK, File, Labels, Operations, Outcomes, Grants,
     Resource, NoToken
<1>2. LockInv /\ FreshInv
  BY DEF LockInv, FreshInv, At, Unsaved
<1>3. StoreInv /\ HandInv
  BY DEF StoreInv, HandInv, At, Unsaved, Loaded
<1>4. TokenInv
  BY DEF TokenInv, At, Unsaved, InUse, NoToken
<1>5. TokenMatchesResource
  BY DEF TokenMatchesResource
<1> QED
  BY <1>1, <1>2, <1>3, <1>4, <1>5 DEF IInv

LEMMA ProgressIInv ==
  ASSUME IInv, NEW c \in Callers, Progress(c)
  PROVE  IInv'
<1>1. TypeOK'
  BY TypeStep DEF IInv
<1> QED
  BY <1>1, LockStep, StoreStep, HandStep, TokenStep, FreshStep, ResourceStep DEF IInv

\* A new call only resets what the caller had left over from the last one.
LEMMA CallIInv ==
  ASSUME IInv, NEW c \in Callers, NEW o \in {"ensure", "handler"}, Call(c, o)
  PROVE  IInv'
<1> USE DEF IInv, TypeOK, RepoTypeOK, OAuthTypeOK, Call, Goto, Take, At, repoVars,
        oauthVars, lockVars, Loads
<1>1. /\ pc' = [pc EXCEPT ![c] = "load"] /\ op' = [op EXCEPT ![c] = o]
      /\ cred' = [cred EXCEPT ![c] = NoCredential]
      /\ outcome' = [outcome EXCEPT ![c] = "none"]
      /\ since' = [since EXCEPT ![c] = versions]
      /\ UNCHANGED <<via, presented, refreshHolder, tokenWriter, retired, file, damaged,
                     version, versions, issued, home, stale>>
  OBVIOUS
<1>2. TypeOK'
  BY <1>1 DEF Labels, Operations, Outcomes
<1>3. LockInv'
  BY <1>1 DEF LockInv, Unsaved
<1>4. StoreInv'
  BY <1>1 DEF StoreInv, Genuine
<1>5. HandInv'
  BY <1>1 DEF HandInv, Genuine, Loaded, Unsaved
<1>6. \A d \in Callers : InUse(d)' = InUse(d) /\ Unsaved(d)' = (Unsaved(d) /\ d # c)
  BY <1>1 DEF InUse, Unsaved
<1>7. TokenInv'
  BY <1>1, <1>6 DEF TokenInv, Unsaved
<1>8. FreshInv'
  BY <1>1, <1>6 DEF FreshInv, Unsaved
<1>9. TokenMatchesResource'
  BY <1>1 DEF TokenMatchesResource
<1> QED
  BY <1>2, <1>3, <1>4, <1>5, <1>7, <1>8, <1>9

LEMMA TimeIInv ==
  ASSUME IInv, TimePasses \/ UNCHANGED vars
  PROVE  IInv'
<1>1. /\ UNCHANGED <<pc, op, via, cred, outcome, presented, refreshHolder, tokenWriter,
                     since, retired, file, damaged, version, versions, issued, home>>
      /\ stale' \subseteq 1..issued
  BY DEF TimePasses, Expire, vars, callerVars, lockVars, repoVars, oauthVars, IInv,
     TypeOK, OAuthTypeOK
<1> QED
  BY <1>1
  DEF IInv, TypeOK, RepoTypeOK, OAuthTypeOK, LockInv, StoreInv, HandInv, TokenInv, FreshInv,
      TokenMatchesResource, Genuine, InUse, Unsaved, Loaded, At, Loads

LEMMA CrashIInv ==
  ASSUME IInv, Crash
  PROVE  IInv'
<1> USE DEF IInv, Crash, ProcessDies, oauthVars, Loads
<1>1. TypeOK'
  BY DEF TypeOK, RepoTypeOK, OAuthTypeOK, Labels, Operations, Outcomes, NoToken
<1>2. LockInv' /\ FreshInv'
  BY DEF LockInv, FreshInv, At, Unsaved
<1>3. StoreInv'
  <2>1. ~Loads' => damaged'
    BY Zenon
  <2> QED
    BY <2>1 DEF StoreInv, Genuine, TypeOK, RepoTypeOK
<1>6. HandInv'
  BY DEF HandInv, At, Unsaved, Loaded
<1>4. TokenInv'
  BY DEF TokenInv, At, Unsaved, InUse, NoToken, TypeOK, OAuthTypeOK
<1>5. TokenMatchesResource'
  BY DEF TokenMatchesResource
<1> QED
  BY <1>1, <1>2, <1>3, <1>4, <1>5, <1>6

LEMMA ClearIInv ==
  ASSUME IInv, ClearDirectory
  PROVE  IInv'
<1> USE DEF IInv, ClearDirectory, DirectoryCleared, Absent, Loads, callerVars, lockVars,
        oauthVars
<1>1. TypeOK'
  BY DEF TypeOK, RepoTypeOK, OAuthTypeOK, File
<1>2. LockInv' /\ FreshInv'
  BY DEF LockInv, FreshInv, At, Unsaved, InUse
<1>3. StoreInv' /\ HandInv'
  BY DEF StoreInv, HandInv, Genuine, At, Unsaved, Loaded
<1>4. TokenInv'
  BY DEF TokenInv, At, Unsaved, InUse
<1>5. TokenMatchesResource'
  BY DEF TokenMatchesResource
<1> QED
  BY <1>1, <1>2, <1>3, <1>4, <1>5

LEMMA NextIInv == IInv /\ [Next]_vars => IInv'
BY ProgressIInv, CallIInv, TimeIInv, CrashIInv, ClearIInv DEF Next

\* The inductive invariant holds in every reachable state.
THEOREM Invariance == Spec => []IInv
BY InitIInv, NextIInv, PTL DEF Spec

-----------------------------------------------------------------------------
(* The properties. *)

\* Every variable keeps its type (auth.go, credential_repository.go).
THEOREM TypeCorrect == Spec => []TypeOK
<1>1. IInv => TypeOK
  BY DEF IInv
<1> QED
  BY <1>1, Invariance, PTL

\* However many goroutines find the token expired, at most one refresh
\* request is out (auth.go:67).
THEOREM NoConcurrentRefresh == Spec => []OneRefreshInFlight
<1>1. IInv => OneRefreshInFlight
  BY DEF IInv, LockInv, OneRefreshInFlight, At
<1> QED
  BY <1>1, Invariance, PTL

\* A refresh token replaced by a stored refresh is never presented again
\* (auth.go:70-81).
THEOREM NoTokenReuse == Spec => []RetiredTokenNeverPresented
<1>1. IInv => RetiredTokenNeverPresented
  <2> SUFFICES ASSUME IInv, NEW c \in Callers
               PROVE  presented[c] \notin retired
    BY DEF RetiredTokenNeverPresented
  <2>1. presented[c] = NoToken \/ InUse(c) = presented[c]
    BY DEF IInv, TokenInv, InUse, At, Unsaved
  <2> QED
    BY <2>1 DEF IInv, TokenInv
<1> QED
  BY <1>1, Invariance, PTL

\* Every access token stays with the resource URL of its own account
\* (auth.go:113).
THEOREM UrlFollowsToken == Spec => []TokenMatchesResource
<1>1. IInv => TokenMatchesResource
  BY DEF IInv
<1> QED
  BY <1>1, Invariance, PTL

\* A call that ends with credentials ends in one of three places.
LEMMA Returns ==
  ASSUME TypeOK, NEW c \in Callers, Progress(c), pc'[c] = "idle", outcome'[c] = "ok"
  PROVE  \/ At(c, "check") /\ cred'[c] = cred[c] /\ UNCHANGED <<version, versions>>
         \/ At(c, "reload") /\ Loads /\ cred'[c] = file.creds /\ UNCHANGED <<version, versions>>
         \/ SaveCompletes(c) /\ cred'[c] = cred[c]
<1> USE DEF TypeOK, Goto, Take, At
<1>1. ASSUME Fail(c) \/ StartDeviceFlow(c) PROVE FALSE
  BY <1>1 DEF Fail, Finish, GoManual, StartDeviceFlow
<1>2. ASSUME NEW cr, Succeed(c, cr) PROVE cred'[c] = cr
  BY <1>2 DEF Succeed, Finish
<1>3. CASE Load(c)
  BY <1>3, <1>1 DEF Load
<1>4. CASE CheckExpiry(c)
  BY <1>4, <1>2 DEF CheckExpiry, repoVars
<1>5. CASE LockRefresh(c)
  BY <1>5 DEF LockRefresh
<1>6. CASE Recheck(c)
  BY <1>6, <1>1 DEF Recheck
<1>7. CASE Reload(c)
  BY <1>7, <1>1, <1>2 DEF Reload, repoVars
<1>8. CASE Refresh(c)
  BY <1>8, <1>1 DEF Refresh
<1>9. CASE RefreshAnswered(c)
  BY <1>9 DEF RefreshAnswered
<1>10. CASE RefreshFails(c)
  BY <1>10, <1>1 DEF RefreshFails
<1>11. CASE DeviceGranted(c)
  BY <1>11 DEF DeviceGranted
<1>12. CASE DeviceFails(c)
  BY <1>12, <1>1 DEF DeviceFails
<1>13. CASE BeginSave(c)
  BY <1>13 DEF BeginSave
<1>14. CASE SaveNotOpened(c)
  BY <1>14, <1>1 DEF SaveNotOpened, SaveFailed
<1>15. CASE SaveCompletes(c)
  BY <1>15, <1>2 DEF SaveCompletes
<1>16. CASE SaveTears(c)
  BY <1>16, <1>1 DEF SaveTears, SaveFailed
<1> QED
  BY <1>3, <1>4, <1>5, <1>6, <1>7, <1>8, <1>9, <1>10, <1>11, <1>12, <1>13, <1>14,
     <1>15, <1>16 DEF Progress

\* A step that ends the call of c, other than a crash, is a step of c.
LEMMA OwnReturn ==
  ASSUME TypeOK, [Next]_vars, NEW c \in Callers,
         pc[c] # "idle", pc'[c] = "idle", outcome'[c] # "none"
  PROVE  Progress(c)
<1>1. ASSUME NEW d \in Callers, Progress(d) PROVE Progress(c)
  BY <1>1, OthersStay
<1>2. ASSUME NEW d \in Callers, NEW o, Call(d, o) PROVE FALSE
  BY <1>2 DEF Call, Goto, TypeOK
<1>3. ASSUME TimePasses \/ ClearDirectory \/ UNCHANGED vars PROVE FALSE
  BY <1>3 DEF TimePasses, ClearDirectory, vars, callerVars
<1>4. ASSUME Crash PROVE FALSE
  BY <1>4 DEF Crash
<1> QED
  BY <1>1, <1>2, <1>3, <1>4 DEF Next

\* A call returns only credentials that were stored, and none older than
\* those stored when it began (auth.go:47-99).
THEOREM ReturnsCurrent == Spec => ReturnsCurrentCredentials
<1> DEFINE Current(c) == /\ version'[cred'[c].grant] > 0
                         /\ version'[cred'[c].grant] >= since[c]
<1>1. ASSUME IInv, [Next]_vars, NEW c \in Callers,
             pc[c] # "idle", pc'[c] = "idle", outcome'[c] = "ok"
      PROVE  Current(c)
  <2>1. TypeOK /\ StoreInv /\ HandInv
    BY <1>1 DEF IInv
  <2>2. CASE At(c, "check") /\ cred'[c] = cred[c] /\ UNCHANGED <<version, versions>>
    BY <2>1, <2>2 DEF HandInv
  <2>3. CASE At(c, "reload") /\ Loads /\ cred'[c] = file.creds /\ UNCHANGED <<version, versions>>
    BY <2>1, <2>3 DEF StoreInv
  <2>4. CASE SaveCompletes(c) /\ cred'[c] = cred[c]
    <3>1. cred[c].grant \in Grants
      BY <2>1, <2>4 DEF SaveCompletes, HandInv, Unsaved, At, Genuine, Credential
    <3>2. version'[cred[c].grant] = versions + 1
      BY <2>1, <2>4, <3>1 DEF SaveCompletes, CompleteWrite, TypeOK, RepoTypeOK
    <3> QED
      BY <2>1, <2>4, <3>2 DEF StoreInv, TypeOK, RepoTypeOK
  <2> QED
    BY <1>1, <2>1, <2>2, <2>3, <2>4, OwnReturn, Returns
<1>2. IInv /\ [Next]_vars =>
        [\A c \in Callers : pc[c] # "idle" /\ pc'[c] = "idle" /\ outcome'[c] = "ok"
                            => Current(c)]_vars
  BY <1>1
<1> QED
  BY <1>2, Invariance, PTL DEF Spec, ReturnsCurrentCredentials

\* Whoever fails to load credentials could not read an intact file, or has met
\* a missing or torn file that a fault left behind, never a save in progress
\* (auth.go:47, 71, 92).
THEOREM NoTornRead == Spec => SaveNeverObserved
<1> DEFINE Reading(c) == pc[c] \in {"load", "recheck", "reload"}
           Failed(c) == pc'[c] = "device" \/ (pc'[c] = "idle" /\ outcome'[c] = "error")
           Caused == (Loads /\ ReadFails) \/ (damaged /\ tokenWriter = None)
<1>1. ASSUME IInv, NEW c \in Callers, Reading(c), Failed(c), Progress(c)
      PROVE  Caused
  <2>1. ASSUME NEW cr, Succeed(c, cr) PROVE FALSE
    BY <1>1, <2>1 DEF IInv, TypeOK, LockInv, Succeed, Finish, Goto
  <2>2. LoadFails /\ Readable
    BY <1>1, <2>1
    DEF Progress, Load, CheckExpiry, LockRefresh, Recheck, Reload, Refresh,
        RefreshAnswered, RefreshFails, DeviceGranted, DeviceFails, BeginSave,
        SaveNotOpened, SaveCompletes, SaveTears, At, Goto, IInv, TypeOK
  <2> QED
    BY <1>1, <2>2 DEF IInv, StoreInv, Readable, LoadFails
<1>2. ASSUME IInv, [Next]_vars, NEW c \in Callers, Reading(c), Failed(c)
      PROVE  Caused
  <2>1. ASSUME NEW d \in Callers, Progress(d) PROVE Progress(c)
    BY <1>2, <2>1, OthersStay DEF IInv
  <2>2. ASSUME NEW d \in Callers, NEW o, Call(d, o) PROVE FALSE
    BY <1>2, <2>2 DEF Call, Goto, At, IInv, TypeOK
  <2>3. ASSUME TimePasses \/ ClearDirectory \/ UNCHANGED vars PROVE FALSE
    BY <1>2, <2>3 DEF TimePasses, ClearDirectory, vars, callerVars
  <2>4. ASSUME Crash PROVE FALSE
    BY <1>2, <2>4 DEF Crash
  <2> QED
    BY <1>1, <1>2, <2>1, <2>2, <2>3, <2>4 DEF Next
<1>3. IInv /\ [Next]_vars =>
        [\A c \in Callers :
           /\ pc[c] \in {"load", "recheck", "reload"}
           /\ pc'[c] = "device" \/ (pc'[c] = "idle" /\ outcome'[c] = "error")
           => \/ Loads /\ ReadFails
              \/ damaged /\ tokenWriter = None]_vars
  BY <1>2
<1> QED
  BY <1>3, Invariance, PTL DEF Spec, SaveNeverObserved

-----------------------------------------------------------------------------
(* What those who use the credentials may rely on. *)

\* Credentials that have been stored, with the resource URL of their account.
Stored(cr) ==
  /\ Genuine(cr)
  /\ version[cr.grant] > 0
  /\ cr.url = home[cr.grant]

\* They stay that, whatever else happens.
LEMMA StoredStays ==
  ASSUME IInv, IInv', [Next]_vars, NEW cr, Stored(cr)
  PROVE  Stored(cr)'
<1>1. TypeOK /\ TypeOK' /\ cr \in Credential /\ cr.grant \in Grants /\ cr.grant <= issued
  BY DEF IInv, Stored, Genuine, Credential
<1>2. ASSUME NEW c \in Callers, Progress(c) PROVE Stored(cr)'
  <2>1. issued' >= issued
    BY <1>1, <1>2, FileSteps
  <2>2. home' = home \/ \E url : Issue(url)
    BY <1>2
    DEF Progress, Load, CheckExpiry, LockRefresh, Recheck, Reload, Refresh,
        RefreshAnswered, RefreshFails, DeviceGranted, DeviceFails, BeginSave,
        SaveNotOpened, SaveCompletes, SaveTears, ServiceFails, oauthVars
  <2>3. home'[cr.grant] = home[cr.grant]
    BY <1>1, <2>2 DEF TypeOK, OAuthTypeOK, Issue, NextGrant, Grants
  <2>4. version'[cr.grant] > 0
    <3>1. CASE version' = version
      BY <3>1 DEF Stored
    <3>2. CASE SaveCompletes(c)
      <4>1. version' = [version EXCEPT ![cred[c].grant] = versions + 1]
        BY <3>2 DEF SaveCompletes, CompleteWrite
      <4>2. version \in [Grants -> Nat] /\ versions \in Nat
        BY <1>1 DEF TypeOK, RepoTypeOK
      <4> QED
        BY <1>1, <4>1, <4>2 DEF Stored
    <3> QED
      BY <1>1, <1>2, <3>1, <3>2, FileSteps DEF BeginSave, Truncate, SaveTears, WriteFails, repoVars
  <2>5. GenuineNow(cr)
    BY <1>1, <2>1, GenuineStays DEF Stored
  <2> QED
    BY <2>3, <2>4, <2>5 DEF Stored, Genuine, GenuineNow
<1>3. ASSUME UNCHANGED <<version, issued, home>> PROVE Stored(cr)'
  BY <1>3 DEF Stored, Genuine
<1>4. ASSUME NEW c \in Callers, NEW o, Call(c, o) PROVE Stored(cr)'
  BY <1>3, <1>4 DEF Call, repoVars, oauthVars
<1>5. CASE TimePasses \/ Crash \/ ClearDirectory \/ UNCHANGED vars
  BY <1>3, <1>5 DEF TimePasses, Expire, Crash, ProcessDies, ClearDirectory, DirectoryCleared,
     vars, repoVars, oauthVars
<1> QED
  BY <1>2, <1>4, <1>5 DEF Next

\* A call that succeeds hands out such credentials.
LEMMA ReturnsStored ==
  ASSUME IInv, IInv', NEW c \in Callers, Progress(c), pc'[c] = "idle", outcome'[c] = "ok"
  PROVE  Stored(cred[c])' /\ cred'[c] # NoCredential
<1>1. TypeOK /\ HandInv /\ StoreInv /\ HandInv' /\ TokenMatchesResource' /\ TypeOK'
  BY DEF IInv
<1>2. cred'[c] # NoCredential /\ version'[cred'[c].grant] > 0
  <2>1. CASE At(c, "check") /\ cred'[c] = cred[c] /\ UNCHANGED <<version, versions>>
    BY <1>1, <2>1 DEF HandInv, Loaded, At
  <2>2. CASE At(c, "reload") /\ Loads /\ cred'[c] = file.creds /\ UNCHANGED <<version, versions>>
    BY <1>1, <2>2 DEF StoreInv, Genuine, Credential, NoCredential, Grants
  <2>3. CASE SaveCompletes(c) /\ cred'[c] = cred[c]
    <3>1. cred[c] # NoCredential /\ cred[c].grant \in Grants
      BY <1>1, <2>3 DEF SaveCompletes, HandInv, Unsaved, At, Genuine, Credential
    <3>2. version'[cred[c].grant] = versions + 1
      BY <1>1, <2>3, <3>1 DEF SaveCompletes, CompleteWrite, TypeOK, RepoTypeOK
    <3> QED
      BY <1>1, <2>3, <3>1, <3>2 DEF TypeOK, RepoTypeOK
  <2> QED
    BY <1>1, <2>1, <2>2, <2>3, Returns
<1>3. Genuine(cred[c])' /\ cred'[c].url = home'[cred'[c].grant]
  BY <1>1, <1>2 DEF HandInv, TokenMatchesResource
<1> QED
  BY <1>2, <1>3 DEF Stored

\* Whoever holds tokenMutex for writing is in the middle of a save.
WriterWrites == tokenWriter # None => At(tokenWriter, "write")

LEMMA WriterStep ==
  ASSUME IInv, IInv', WriterWrites, [Next]_vars
  PROVE  WriterWrites'
<1>1. ASSUME NEW c \in Callers, Progress(c) PROVE WriterWrites'
  <2>1. TypeOK /\ TypeOK'
    BY DEF IInv
  <2>2. CASE BeginSave(c)
    BY <2>1, <2>2 DEF BeginSave, WriterWrites, Goto, At, TypeOK
  <2>3. CASE At(c, "write") /\ tokenWriter' = None
    BY <2>3 DEF WriterWrites
  <2>4. CASE tokenWriter' = tokenWriter /\ tokenWriter # c
    BY <1>1, <2>1, <2>4, OthersStay DEF WriterWrites, At, TypeOK
  <2>5. CASE tokenWriter' = tokenWriter /\ tokenWriter = c
    BY <1>1, <2>5, CallersAssumption
    DEF WriterWrites, At, Progress, Load, CheckExpiry, LockRefresh, Recheck, Reload,
        Refresh, RefreshAnswered, RefreshFails, DeviceGranted, DeviceFails, BeginSave,
        SaveNotOpened, SaveCompletes, SaveTears
  <2>6. CASE tokenWriter = None /\ tokenWriter' = c
    <3>1. BeginSave(c)
      BY <1>1, <2>6, CallersAssumption
      DEF Progress, Load, CheckExpiry, LockRefresh, Recheck, Reload, Refresh,
          RefreshAnswered, RefreshFails, DeviceGranted, DeviceFails, BeginSave,
          SaveNotOpened, SaveCompletes, SaveTears, lockVars
    <3> QED
      BY <2>2, <3>1
  <2> QED
    BY <1>1, <2>1, <2>3, <2>4, <2>5, <2>6, OthersStay
<1>2. ASSUME NEW c \in Callers, NEW o, Call(c, o) PROVE WriterWrites'
  BY <1>2 DEF Call, WriterWrites, At, Goto, IInv, TypeOK, lockVars
<1>3. CASE TimePasses \/ ClearDirectory \/ UNCHANGED vars
  BY <1>3 DEF TimePasses, ClearDirectory, WriterWrites, At, vars, callerVars, lockVars
<1>4. CASE Crash
  BY <1>4 DEF Crash, WriterWrites
<1> QED
  BY <1>1, <1>2, <1>3, <1>4 DEF Next

\* A call keeps its kind, except that AuthenticateHandler turns a failed check
\* into a manual login, and so never ends with the error of the check.
LEMMA OpStep ==
  ASSUME TypeOK, NEW c \in Callers, Progress(c)
  PROVE  /\ pc[c] # "idle"
         /\ \/ op'[c] = op[c]
            \/ op[c] = "handler" /\ op'[c] = "manual" /\ pc'[c] = "device"
         /\ pc'[c] = "idle" /\ outcome'[c] = "error" => op[c] # "handler"
         /\ pc'[c] = "idle" /\ outcome'[c] = "ok" => op[c] # "manual"
         /\ pc'[c] = "idle" /\ outcome'[c] = "initiated" => op[c] = "manual"
         /\ pc'[c] = "idle" => outcome'[c] \in {"ok", "error", "initiated"}
<1> DEFINE Ends ==
      /\ \/ op'[c] = op[c]
         \/ op[c] = "handler" /\ op'[c] = "manual" /\ pc'[c] = "device"
      /\ pc'[c] = "idle" /\ outcome'[c] = "error" => op[c] # "handler"
      /\ pc'[c] = "idle" /\ outcome'[c] = "ok" => op[c] # "manual"
      /\ pc'[c] = "idle" /\ outcome'[c] = "initiated" => op[c] = "manual"
      /\ pc'[c] = "idle" => outcome'[c] \in {"ok", "error", "initiated"}
<1>1. ASSUME NEW cr, Succeed(c, cr) PROVE Ends
  BY <1>1 DEF TypeOK, Succeed, Finish, Goto
<1>2. ASSUME Fail(c) \/ StartDeviceFlow(c) PROVE Ends
  BY <1>2 DEF TypeOK, Fail, Finish, GoManual, StartDeviceFlow, Goto
<1>3. ASSUME NEW l, l # "idle", Goto(c, l), op' = op PROVE Ends
  BY <1>3 DEF TypeOK, Goto
<1>4. pc[c] # "idle"
  BY DEF Progress, At, Load, CheckExpiry, LockRefresh, Recheck, Reload, Refresh, RefreshAnswered,
     RefreshFails, DeviceGranted, DeviceFails, BeginSave, SaveNotOpened, SaveCompletes, SaveTears
<1> SUFFICES Ends
  BY <1>4
<1> HIDE DEF Ends
<1>5. CASE Load(c) \/ CheckExpiry(c) \/ LockRefresh(c)
  BY <1>5, <1>1, <1>2, <1>3 DEF Load, CheckExpiry, LockRefresh
<1>6. CASE Recheck(c)
  <2>1. CASE Fail(c)
    BY <2>1, <1>2
  <2>2. CASE Goto(c, IF IsExpired(file.creds) THEN "refresh" ELSE "reload") /\ op' = op
    <3>1. PICK l \in {"refresh", "reload"} : Goto(c, l)
      BY <2>2
    <3> QED
      BY <2>2, <3>1, <1>3
  <2> QED
    BY <1>6, <2>1, <2>2 DEF Recheck
<1>7. CASE Reload(c) \/ Refresh(c) \/ RefreshAnswered(c) \/ RefreshFails(c)
  BY <1>7, <1>1, <1>2, <1>3 DEF Reload, Refresh, RefreshAnswered, RefreshFails
<1>8. CASE DeviceGranted(c) \/ DeviceFails(c) \/ BeginSave(c)
  BY <1>8, <1>1, <1>2, <1>3 DEF DeviceGranted, DeviceFails, BeginSave
<1>9. CASE SaveNotOpened(c) \/ SaveCompletes(c) \/ SaveTears(c)
  BY <1>9, <1>1, <1>2 DEF SaveNotOpened, SaveCompletes, SaveTears, SaveFailed
<1> QED
  BY <1>5, <1>6, <1>7, <1>8, <1>9 DEF Progress
=============================================================================
