-------------------------- MODULE TokenStore_proofs -------------------------
(***************************************************************************)
(* AuthUseCase implements TokenStore, for every set of callers, every      *)
(* number of grants and every set of faults: each step of Auth, read       *)
(* through the refinement mapping Abstract, is a step of the store or      *)
(* leaves it as it is.  The inductive invariant of Auth gives what the     *)
(* guards of the store ask for.                                            *)
(***************************************************************************)
EXTENDS Auth_proofs

-----------------------------------------------------------------------------
(* The mapping, when one caller moves. *)

Calls == {c \in Callers : pc[c] # "idle"}
Refreshes == {c \in Callers : pc[c] = "reply"}
Given == [c \in Callers |-> IF pc[c] = "idle" THEN cred[c].grant ELSE 0]

\* What a move of c to l with credentials cr does to the mapped variables.
LEMMA MoveMaps ==
  ASSUME TypeOK, NEW c \in Callers, NEW l, NEW cr, Goto(c, l), Take(c, cr)
  PROVE  /\ l = "idle" => /\ Calls' = Calls \ {c}
                          /\ Given' = [Given EXCEPT ![c] = cr.grant]
         /\ l # "idle" => /\ Calls' = Calls \cup {c}
                          /\ Given' = [Given EXCEPT ![c] = 0]
         /\ l = "reply" => Refreshes' = Refreshes \cup {c}
         /\ l # "reply" => Refreshes' = Refreshes \ {c}
<1>1. /\ pc'[c] = l /\ cred'[c] = cr
      /\ \A d \in Callers \ {c} : pc'[d] = pc[d] /\ cred'[d] = cred[d]
  BY DEF Goto, Take, TypeOK
<1>2. (l = "idle" => Calls' = Calls \ {c}) /\ (l # "idle" => Calls' = Calls \cup {c})
  BY <1>1 DEF Calls
<1>3. /\ l = "reply" => Refreshes' = Refreshes \cup {c}
      /\ l # "reply" => Refreshes' = Refreshes \ {c}
  BY <1>1 DEF Refreshes
<1>4. /\ l = "idle" => Given' = [Given EXCEPT ![c] = cr.grant]
      /\ l # "idle" => Given' = [Given EXCEPT ![c] = 0]
  BY <1>1 DEF Given
<1> QED
  BY <1>2, <1>3, <1>4

LEMMA GivenWhileBusy ==
  ASSUME NEW c \in Callers, pc[c] # "idle"
  PROVE  Given = [Given EXCEPT ![c] = 0]
BY DEF Given

\* A caller under way that neither starts nor ends a refresh.
LEMMA SilentMove ==
  ASSUME TypeOK, NEW c \in Callers, pc[c] \notin {"idle", "reply"},
         NEW l, l \notin {"idle", "reply"}, Goto(c, l),
         NEW cr, Take(c, cr),
         UNCHANGED <<version, versions, retired, since, presented>>
  PROVE  UNCHANGED Abstract!vars
<1>1. Calls' = Calls /\ Refreshes' = Refreshes /\ Given' = Given
  BY MoveMaps, GivenWhileBusy DEF Calls, Refreshes
<1> QED
  BY <1>1 DEF Abstract!vars, Abstract!storeVars, Abstract!callVars, Calls, Given, Refreshes,
              NoCredential

\* A caller that keeps its credentials, likewise.
LEMMA SilentStay ==
  ASSUME TypeOK, NEW c \in Callers, pc[c] \notin {"idle", "reply"},
         NEW l, l \notin {"idle", "reply"}, Goto(c, l),
         UNCHANGED <<cred, version, versions, retired, since, presented>>
  PROVE  UNCHANGED Abstract!vars
<1>1. Take(c, cred[c])
  BY DEF Take, TypeOK
<1> QED
  BY <1>1, SilentMove

LEMMA FinishMaps ==
  ASSUME TypeOK, NEW c \in Callers, pc[c] # "idle",
         NEW res, NEW cr, Finish(c, res, cr)
  PROVE  Abstract!Answer(c, cr.grant)
<1>1. Calls' = Calls \ {c} /\ Given' = [Given EXCEPT ![c] = cr.grant] /\ Refreshes' = Refreshes \ {c}
  BY MoveMaps DEF Finish
<1>2. c \in Calls /\ since' = [since EXCEPT ![c] = 0] /\ presented' = [presented EXCEPT ![c] = NoToken]
  BY DEF Calls, Finish, Forget
<1> QED
  BY <1>1, <1>2 DEF Abstract!Answer, Calls, Given, Refreshes, NoCredential

LEMMA GiveUpMaps ==
  ASSUME TypeOK, NEW c \in Callers, pc[c] # "idle",
         GoManual(c) \/ StartDeviceFlow(c), UNCHANGED <<version, versions, retired>>
  PROVE  Abstract!GiveUp(c)
<1>1. /\ Goto(c, "device") /\ Take(c, NoCredential) /\ Forget(c) /\ since' = since
  BY DEF GoManual, StartDeviceFlow
<1>2. Calls' = Calls /\ Refreshes' = Refreshes \ {c} /\ Given' = Given
  BY <1>1, MoveMaps, GivenWhileBusy DEF Calls
<1> QED
  BY <1>1, <1>2 DEF Abstract!GiveUp, Abstract!storeVars, Calls, Given, Refreshes, Forget, NoCredential

\* A call that fails, or whose handler turns to the manual login.
LEMMA FailMaps ==
  ASSUME TypeOK, NEW c \in Callers, pc[c] # "idle", Fail(c),
         UNCHANGED <<version, versions, retired>>
  PROVE  Abstract!GiveUp(c) \/ Abstract!Fail(c)
<1>1. CASE Finish(c, "error", NoCredential)
  <2>1. Abstract!Answer(c, NoCredential.grant)
    BY <1>1, FinishMaps
  <2> QED
    BY <2>1 DEF Abstract!Fail, Abstract!storeVars
<1>2. CASE GoManual(c)
  BY <1>2, GiveUpMaps
<1> QED
  BY <1>1, <1>2 DEF Fail

-----------------------------------------------------------------------------
(* Each step of the code. *)

\* A successful call hands out a grant that is stored and not older than it.
LEMMA ReturnMaps ==
  ASSUME IInv, NEW c \in Callers, pc[c] \in {"check", "reload"},
         NEW cr, cr \in Credential, version[cr.grant] > 0, version[cr.grant] >= since[c],
         Succeed(c, cr), UNCHANGED <<version, versions, retired>>
  PROVE  Abstract!Return(c, cr.grant)
<1>1. Finish(c, "ok", cr)
  BY DEF Succeed, IInv, LockInv
<1>2. Abstract!Answer(c, cr.grant)
  BY <1>1, FinishMaps DEF IInv
<1> QED
  BY <1>2 DEF Abstract!Return, Abstract!storeVars

LEMMA SendMaps ==
  ASSUME IInv, NEW c \in Callers, Refresh(c), cred[c].refresh # NoToken
  PROVE  \E t \in Grants : Abstract!Send(c, t)
<1>1. /\ At(c, "refresh") /\ Goto(c, "reply")
      /\ presented' = [presented EXCEPT ![c] = cred[c].refresh]
      /\ UNCHANGED <<cred, since, version, versions, retired>>
  BY DEF Refresh, repoVars
<1>2. Calls' = Calls /\ Given' = Given /\ Refreshes' = Refreshes \cup {c}
  <2>1. Take(c, cred[c])
    BY <1>1 DEF Take, IInv, TypeOK
  <2> QED
    BY <1>1, <2>1, MoveMaps, GivenWhileBusy DEF Calls, IInv, At
<1>3. Refreshes = {}
  BY <1>1 DEF Refreshes, IInv, LockInv, At
<1>4. cred[c].refresh \in Grants /\ cred[c].refresh \notin retired
  <2>1. cred[c] \in Credential
    BY <1>1 DEF IInv, HandInv, Loaded, Genuine, At
  <2> QED
    BY <1>1, <2>1 DEF IInv, TokenInv, InUse, Credential
<1>5. c \in Calls
  BY <1>1 DEF Calls, At
<1> QED
  BY <1>1, <1>2, <1>3, <1>4, <1>5 DEF Abstract!Send, Abstract!storeVars, Calls, Given, Refreshes,
     NoCredential

LEMMA AnsweredMaps ==
  ASSUME IInv, NEW c \in Callers, RefreshAnswered(c)
  PROVE  Abstract!Answered(c)
<1>1. /\ At(c, "reply") /\ Goto(c, "save") /\ \E cr : Take(c, cr)
      /\ UNCHANGED <<presented, since, version, versions, retired>>
  BY DEF RefreshAnswered, repoVars
<1>2. Calls' = Calls /\ Given' = Given /\ Refreshes' = Refreshes \ {c}
  BY <1>1, MoveMaps, GivenWhileBusy DEF Calls, IInv, At
<1>3. Refreshes = {c}
  BY <1>1 DEF Refreshes, IInv, LockInv, At
<1> QED
  BY <1>1, <1>2, <1>3 DEF Abstract!Answered, Abstract!storeVars, Calls, Given, Refreshes, NoCredential

LEMMA StoreMaps ==
  ASSUME IInv, NEW c \in Callers, SaveCompletes(c)
  PROVE  Abstract!Store(c, cred[c].grant)
<1>1. /\ versions' = versions + 1
      /\ version' = [version EXCEPT ![cred[c].grant] = versions']
      /\ retired' \in {retired, retired \cup {presented[c]}}
  BY DEF SaveCompletes, CompleteWrite
<1>2. pc[c] # "idle" /\ Succeed(c, cred[c])
  BY DEF SaveCompletes, At
<1>3. TypeOK
  BY DEF IInv
<1>4. CASE Finish(c, "ok", cred[c])
  <2>1. Abstract!Answer(c, cred[c].grant)
    <3>1. PICK cr : cr = cred[c]
      OBVIOUS
    <3>2. Finish(c, "ok", cr)
      BY <1>4, <3>1
    <3>3. Abstract!Answer(c, cr.grant)
      BY <1>2, <1>3, <3>2, FinishMaps
    <3> QED
      BY <3>1, <3>3 DEF Abstract!Answer
  <2> QED
    BY <1>1, <2>1 DEF Abstract!Store
<1>5. CASE Finish(c, "initiated", NoCredential)
  <2>1. Abstract!Answer(c, NoCredential.grant)
    BY <1>2, <1>5, <1>3, FinishMaps
  <2> QED
    BY <1>1, <2>1 DEF Abstract!Store
<1> QED
  BY <1>2, <1>4, <1>5 DEF Succeed

LEMMA ProgressMaps ==
  ASSUME IInv, NEW c \in Callers, Progress(c)
  PROVE  [Abstract!Next]_(Abstract!vars)
<1> DEFINE AStep == \/ Abstract!Answered(c) \/ Abstract!GiveUp(c) \/ Abstract!Fail(c)
                    \/ \E t \in Grants : Abstract!Send(c, t)
                    \/ \E g \in Grants : Abstract!Return(c, g) \/ Abstract!Store(c, g)
<1> SUFFICES AStep \/ UNCHANGED Abstract!vars
  BY Zenon DEF Abstract!Next
<1>0. TypeOK
  BY DEF IInv
<1>1. CASE Load(c)
  <2>1. CASE StartDeviceFlow(c)
    BY <1>0, <1>1, <2>1, GiveUpMaps DEF Load, At, repoVars
  <2>2. CASE Goto(c, "check") /\ Take(c, file.creds) /\ UNCHANGED <<presented, since>>
    BY <1>0, <1>1, <2>2, SilentMove DEF Load, At, repoVars
  <2> QED
    BY <1>1, <2>1, <2>2 DEF Load
<1>2. CASE CheckExpiry(c)
  <2>1. CASE Succeed(c, cred[c])
    <3>1. /\ cred[c] \in Credential /\ cred[c].grant \in Grants
          /\ version[cred[c].grant] > 0 /\ version[cred[c].grant] >= since[c]
      BY <1>2 DEF IInv, HandInv, CheckExpiry, At, Loaded, Genuine, Credential
    <3>2. Abstract!Return(c, cred[c].grant)
      BY <1>2, <2>1, <3>1, ReturnMaps DEF CheckExpiry, At, repoVars
    <3> QED
      BY <3>1, <3>2
  <2>2. CASE Goto(c, "lock") /\ UNCHANGED <<cred, presented, since>>
    BY <1>0, <1>2, <2>2, SilentStay DEF CheckExpiry, At, repoVars
  <2> QED
    BY <1>2, <2>1, <2>2 DEF CheckExpiry
<1>3. CASE LockRefresh(c)
  BY <1>0, <1>3, SilentStay DEF LockRefresh, At, repoVars
<1>4. CASE Recheck(c)
  <2>1. CASE Fail(c)
    BY <1>0, <1>4, <2>1, FailMaps DEF Recheck, At, repoVars
  <2>2. CASE /\ Goto(c, IF IsExpired(file.creds) THEN "refresh" ELSE "reload")
             /\ Take(c, file.creds) /\ UNCHANGED <<presented, since>>
    <3>1. PICK l \in {"refresh", "reload"} : Goto(c, l)
      BY <2>2
    <3> QED
      BY <1>0, <1>4, <2>2, <3>1, SilentMove DEF Recheck, At, repoVars
  <2> QED
    BY <1>4, <2>1, <2>2 DEF Recheck
<1>5. CASE Reload(c)
  <2>1. CASE Loads /\ Succeed(c, file.creds)
    <3>1. /\ file.creds \in Credential /\ file.creds.grant \in Grants
          /\ version[file.creds.grant] > 0 /\ version[file.creds.grant] >= since[c]
      BY <2>1 DEF IInv, StoreInv, Genuine, Credential
    <3>2. Abstract!Return(c, file.creds.grant)
      BY <1>5, <2>1, <3>1, ReturnMaps DEF Reload, At, repoVars
    <3> QED
      BY <3>1, <3>2
  <2>2. CASE Fail(c)
    BY <1>0, <1>5, <2>2, FailMaps DEF Reload, At, repoVars
  <2> QED
    BY <1>5, <2>1, <2>2 DEF Reload
<1>6. CASE Refresh(c)
  <2>1. CASE cred[c].refresh = NoToken
    BY <1>0, <1>6, <2>1, GiveUpMaps DEF Refresh, At, repoVars
  <2>2. CASE cred[c].refresh # NoToken
    BY <1>6, <2>2, SendMaps
  <2> QED
    BY <2>1, <2>2
<1>7. CASE RefreshAnswered(c)
  BY <1>7, AnsweredMaps
<1>8. CASE RefreshFails(c)
  BY <1>0, <1>8, GiveUpMaps DEF RefreshFails, At, repoVars
<1>9. CASE DeviceGranted(c)
  BY <1>0, <1>9, SilentMove DEF DeviceGranted, At, repoVars
<1>10. CASE DeviceFails(c)
  BY <1>0, <1>10, FailMaps DEF DeviceFails, At, repoVars
<1>11. CASE BeginSave(c)
  BY <1>0, <1>11, SilentStay DEF BeginSave, At, Truncate
<1>12. CASE SaveNotOpened(c)
  BY <1>0, <1>12, GiveUpMaps, FailMaps DEF SaveNotOpened, SaveFailed, At, OpenFails, repoVars
<1>13. CASE SaveCompletes(c)
  <2>1. cred[c].grant \in Grants
    BY <1>13 DEF SaveCompletes, At, IInv, HandInv, Unsaved, Genuine, Credential
  <2> QED
    BY <1>13, <2>1, StoreMaps
<1>14. CASE SaveTears(c)
  BY <1>0, <1>14, GiveUpMaps, FailMaps DEF SaveTears, SaveFailed, At, WriteFails
<1> QED
  BY <1>1, <1>2, <1>3, <1>4, <1>5, <1>6, <1>7, <1>8, <1>9, <1>10, <1>11, <1>12, <1>13, <1>14
     DEF Progress

LEMMA CallMaps ==
  ASSUME IInv, NEW c \in Callers, NEW o, Call(c, o)
  PROVE  Abstract!Begin(c)
<1>1. /\ At(c, "idle") /\ Goto(c, "load") /\ Take(c, NoCredential)
      /\ since' = [since EXCEPT ![c] = versions]
      /\ UNCHANGED <<presented, version, versions, retired>>
  BY DEF Call, repoVars
<1>2. /\ Calls' = Calls \cup {c} /\ Given' = [Given EXCEPT ![c] = 0]
      /\ Refreshes' = Refreshes \ {c}
  <2>1. TypeOK
    BY DEF IInv
  <2>2. /\ pc'[c] = "load"
        /\ \A d \in Callers \ {c} : pc'[d] = pc[d] /\ cred'[d] = cred[d]
    BY <1>1, <2>1 DEF Goto, Take, TypeOK
  <2>3. Calls' = Calls \cup {c}
    BY <2>2 DEF Calls
  <2>4. Given' = [Given EXCEPT ![c] = 0]
    BY <2>2 DEF Given
  <2>5. Refreshes' = Refreshes \ {c}
    BY <2>2 DEF Refreshes
  <2> QED
    BY <2>3, <2>4, <2>5
<1>3. c \notin Calls /\ c \notin Refreshes
  BY <1>1 DEF Calls, Refreshes, At
<1> QED
  BY <1>1, <1>2, <1>3 DEF Abstract!Begin, Abstract!storeVars, Calls, Given, Refreshes, NoCredential

LEMMA CrashMaps == ASSUME Crash PROVE Abstract!Lose
<1>1. Calls' = {} /\ Refreshes' = {} /\ Given' = [c \in Callers |-> 0]
  BY DEF Crash, Calls, Refreshes, Given, NoCredential
<1> QED
  BY <1>1 DEF Crash, ProcessDies, Abstract!Lose, Abstract!storeVars, Calls, Given, Refreshes,
     NoCredential, NoToken

LEMMA NextMaps == IInv /\ [Next]_vars => [Abstract!Next]_(Abstract!vars)
<1> SUFFICES ASSUME IInv, [Next]_vars PROVE [Abstract!Next]_(Abstract!vars)
  OBVIOUS
<1>1. ASSUME NEW c \in Callers, Progress(c) PROVE [Abstract!Next]_(Abstract!vars)
  BY <1>1, ProgressMaps
<1>2. ASSUME NEW c \in Callers, NEW o, Call(c, o) PROVE [Abstract!Next]_(Abstract!vars)
  BY <1>2, CallMaps DEF Abstract!Next
<1>3. CASE Crash
  BY <1>3, CrashMaps DEF Abstract!Next
<1>4. CASE TimePasses \/ ClearDirectory \/ UNCHANGED vars
  <2>1. UNCHANGED <<version, versions, retired, pc, cred, since, presented>>
    BY <1>4 DEF TimePasses, ClearDirectory, DirectoryCleared, vars, callerVars, repoVars
  <2> QED
    BY <2>1 DEF Abstract!vars, Abstract!storeVars, Abstract!callVars
<1> QED
  BY <1>1, <1>2, <1>3, <1>4 DEF Next

LEMMA InitMaps == Init => Abstract!Init
BY DEF Init, RepoInit, OAuthInit, Abstract!Init, NoCredential

-----------------------------------------------------------------------------
\* AuthUseCase promises its callers what TokenStore says, with goroutines
\* racing, saves failing and the process dying at any point (auth.go:44-145).
THEOREM Implementation == Spec => ImplementsStore
<1>1. Init => Abstract!Init
  BY InitMaps
<1>2. IInv /\ [Next]_vars => [Abstract!Next]_(Abstract!vars)
  BY NextMaps
<1> QED
  BY <1>1, <1>2, Invariance, PTL DEF Spec, ImplementsStore, Abstract!Safety
=============================================================================
