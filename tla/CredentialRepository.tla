------------------------ MODULE CredentialRepository -----------------------
(***************************************************************************)
(* FileCredentialRepository: one JSON file, read by os.ReadFile and        *)
(* written by os.WriteFile, which truncates the file when it opens it and  *)
(* writes the bytes afterwards.  Nothing here is synchronised: the callers *)
(* hold tokenMutex (see Auth).  A file that a write has truncated and not  *)
(* completed is "torn": json.Unmarshal rejects it.                         *)
(***************************************************************************)
EXTENDS Credentials

VARIABLES
  file,       \* the credentials file
  damaged,    \* history: the file is missing or torn and nobody is writing it
  version,    \* history: version[g] numbers the save that stored grant g, 0 if none
  versions    \* history: the number of saves completed so far

repoVars == <<file, damaged, version, versions>>

File == [state: {"absent", "torn", "ok"}, creds: Credential \cup {NoCredential}]

Absent == [state |-> "absent", creds |-> NoCredential]
Torn == [state |-> "torn", creds |-> NoCredential]
Holding(cr) == [state |-> "ok", creds |-> cr]

RepoTypeOK ==
  /\ file \in File
  /\ damaged \in BOOLEAN
  /\ version \in [Grants -> Nat]
  /\ versions \in Nat

RepoInit ==
  /\ file = Absent
  /\ damaged = TRUE
  /\ version = [g \in Grants |-> 0]
  /\ versions = 0

-----------------------------------------------------------------------------
\* The file is there and parses: Load returns what it holds, unless the read
\* itself fails (ReadFails of Auth).
Loads == file.state = "ok"

\* Save: MkdirAll or the open of WriteFile fails, and the file is as it was.
OpenFails == UNCHANGED repoVars

\* Save: WriteFile has opened the file and thereby truncated it.
Truncate ==
  /\ file' = Torn
  /\ UNCHANGED <<damaged, version, versions>>

\* Save: WriteFile has written every byte of cr.
CompleteWrite(cr) ==
  /\ file' = Holding(cr)
  /\ damaged' = FALSE
  /\ versions' = versions + 1
  /\ version' = [version EXCEPT ![cr.grant] = versions + 1]

\* Save: the write after the truncation fails; what is left does not parse.
WriteFails ==
  /\ damaged' = TRUE
  /\ UNCHANGED <<file, version, versions>>

-----------------------------------------------------------------------------
(* What the environment does to the file. *)

\* The process dies; the file keeps the bytes it has.
ProcessDies ==
  /\ damaged' = (file.state # "ok")
  /\ UNCHANGED <<file, version, versions>>

\* The operator clears the .qwen directory, as the README tells them to.
DirectoryCleared ==
  /\ file' = Absent
  /\ damaged' = TRUE
  /\ UNCHANGED <<version, versions>>
=============================================================================
