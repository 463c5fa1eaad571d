------------------------------- MODULE AskPass -------------------------------
(***************************************************************************)
(* Feeding a password to ssh without a terminal.                           *)
(*                                                                         *)
(* Every ssh command for a password host is built in two steps: the shared *)
(* askpass helper is found, repaired or replaced in the private socket     *)
(* directory, then the password is staged in a file of this command's own. *)
(* A captured operation holds a guard that removes the file when it ends,  *)
(* times out or is cancelled; a command handed to a streaming caller has a *)
(* thread that removes it after a bounded time.  Commands are built        *)
(* concurrently, and all of them use the one helper.                       *)
(***************************************************************************)
EXTENDS Integers, FiniteSets

CONSTANTS
  SshCmds,      \* ssh commands, each built once
  MaxStageFails \* bound: file operations and threads that fail

ASSUME AskAssumption == MaxStageFails \in Nat

VARIABLES
  helper,     \* askpass.sh in the socket directory
  cmd,        \* each command: who asked for it and how far it is
  secret,     \* each command's password file and who removes it
  stageFails  \* failures so far

askVars == <<helper, cmd, secret, stageFails>>

\* "foreign" is what is never reused: a link, another owner, a second name or
\* another text.  "loose" has the right text and the wrong mode.
Helpers == {"absent", "foreign", "loose", "good"}
CmdSteps == {"new", "dir", "repair", "replace", "stage", "build", "running",
              "ended", "refused"}

\* The variables stay within their types.
AskTypeOK ==
  /\ helper \in Helpers
  /\ cmd \in [SshCmds -> [way: {"captured", "public"}, pc: CmdSteps]]
  /\ secret \in [SshCmds -> {"none", "guarded", "timed", "orphan"}]
  /\ stageFails \in 0..MaxStageFails

AskInit ==
  /\ helper \in Helpers
  /\ cmd \in [SshCmds -> [way: {"captured", "public"}, pc: {"new"}]]
  /\ secret = [c \in SshCmds |-> "none"] /\ stageFails = 0

CmdAt(c, pc) == cmd[c].pc = pc
ToStep(c, pc) == cmd' = [cmd EXCEPT ![c].pc = pc]
Secret(c, who) == secret' = [secret EXCEPT ![c] = who]

-----------------------------------------------------------------------------
(* Building a command                                                      *)

\* try_ssh_command_opts prepares the helper before there is any command.
BuildCommand(c) ==
  CmdAt(c, "new") /\ ToStep(c, "dir") /\ UNCHANGED <<helper, secret,
                                                     stageFails>>

\* ensure_private_ssh_dir creates the directory and proves it is ours; then
\* the helper is looked at.
CheckHelper(c) ==
  /\ CmdAt(c, "dir")
  /\ ToStep(c, IF helper \in {"loose", "good"} THEN "repair" ELSE "replace")
  /\ UNCHANGED <<helper, secret, stageFails>>

\* The mode is set and the file is verified again.
RepairHelper(c) ==
  /\ CmdAt(c, "repair")
  /\ helper' = IF helper = "loose" THEN "good" ELSE helper
  /\ ToStep(c, IF helper' = "good" THEN "stage" ELSE "refused")
  /\ UNCHANGED <<secret, stageFails>>

\* The text goes into a file of its own name, which is renamed into place.
ReplaceHelper(c) ==
  /\ CmdAt(c, "replace")
  /\ helper' = "good" /\ ToStep(c, "stage")
  /\ UNCHANGED <<secret, stageFails>>

\* stage_password_secret_in: create_new, write, verify; a failure on the way
\* removes what was written.
StageSecret(c) ==
  /\ CmdAt(c, "stage") /\ Secret(c, "guarded") /\ ToStep(c, "build")
  /\ UNCHANGED <<helper, stageFails>>

\* Any of these steps can fail; then no ssh is started for this command.
PreparationFails(c) ==
  /\ cmd[c].pc \in {"dir", "repair", "replace", "stage"}
  /\ stageFails < MaxStageFails /\ stageFails' = stageFails + 1
  /\ ToStep(c, "refused") /\ UNCHANGED <<helper, secret>>

\* into_public_command gives the file to a cleanup thread; when no thread can
\* be started the guard is dropped and a command that only fails is returned.
HandOut(c) ==
  /\ CmdAt(c, "build") /\ cmd[c].way = "public"
  /\ \/ /\ Secret(c, "timed") /\ ToStep(c, "running") /\ UNCHANGED stageFails
     \/ /\ stageFails < MaxStageFails /\ stageFails' = stageFails + 1
        /\ Secret(c, "none") /\ ToStep(c, "refused")
  /\ UNCHANGED helper

RunCaptured(c) ==
  /\ CmdAt(c, "build") /\ cmd[c].way = "captured"
  /\ ToStep(c, "running") /\ UNCHANGED <<helper, secret, stageFails>>

-----------------------------------------------------------------------------
(* Running it                                                              *)

\* remove_password_secret takes away only the very file that was staged.
RemoveSecret(c) == Secret(c, "none")

\* The captured command answers, fails, is killed at its timeout, or its
\* future is dropped: the guard removes the file either way.
CapturedEnds(c) ==
  /\ CmdAt(c, "running") /\ cmd[c].way = "captured"
  /\ RemoveSecret(c) /\ ToStep(c, "ended")
  /\ UNCHANGED <<helper, stageFails>>

\* A streaming ssh ends whenever it does: its file is the thread's business.
StreamingEnds(c) ==
  /\ CmdAt(c, "running") /\ cmd[c].way = "public"
  /\ ToStep(c, "ended") /\ UNCHANGED <<helper, secret, stageFails>>

\* ASKPASS_SECRET_MAX_LIFETIME after the command was handed out.
CleanupThread(c) ==
  /\ secret[c] = "timed" /\ RemoveSecret(c)
  /\ UNCHANGED <<helper, cmd, stageFails>>

\* The removal itself can fail: the guard and the thread log it, and a
\* captured command that had answered reports the error.
RemovalFails(c) ==
  /\ secret[c] # "none" /\ secret[c] # "orphan"
  /\ stageFails < MaxStageFails /\ stageFails' = stageFails + 1
  /\ \/ secret[c] = "timed" /\ UNCHANGED cmd
     \/ CmdAt(c, "running") /\ ToStep(c, "ended")
  /\ Secret(c, "orphan") /\ UNCHANGED helper

AskNext ==
  \E c \in SshCmds:
    \/ BuildCommand(c) \/ CheckHelper(c) \/ RepairHelper(c)
    \/ ReplaceHelper(c) \/ StageSecret(c) \/ PreparationFails(c)
    \/ HandOut(c) \/ RunCaptured(c) \/ CapturedEnds(c) \/ StreamingEnds(c)
    \/ CleanupThread(c) \/ RemovalFails(c)

AskSpec == AskInit /\ [][AskNext]_askVars

-----------------------------------------------------------------------------
(* Properties                                                              *)

\* While a captured ssh may still be asked for its password, the helper is
\* whole and the command's file is there, whatever other commands are doing to
\* the shared helper (ssh.rs askpass_script_path_in, run_ssh_once); and once a
\* command is over nothing of it stays behind unless a removal failed.
PasswordIsThere ==
  \A c \in SshCmds:
    /\ CmdAt(c, "running") => helper = "good"
    /\ CmdAt(c, "running") /\ cmd[c].way = "captured" => secret[c] = "guarded"
    /\ cmd[c].pc \in {"ended", "refused"} => secret[c] # "guarded"
=============================================================================
