-------------------------------- MODULE GitDiff --------------------------------
(***************************************************************************)
(* git_diff.py: one `git diff` child, read no further than the gate's      *)
(* budget and killed by a timer thread, and the patches its output splits  *)
(* into.  tools/gate_range.py guards them before they may leave.           *)
(*                                                                         *)
(* A text is the set of the kinds of material in it: "plain"; "shell", a   *)
(* secret in a URL, a header, a flag or an unquoted assignment; "pem", the *)
(* first line of a private key; "format", a known token format; "double"   *)
(* and "single", a value in such quotes assigned to a secret-named key;    *)
(* "missed", a quoted value that no pattern matches, like one in the       *)
(* escaped quotes of a JSON string.                                        *)
(* A change is [old, new, text, plus]: the file's name before and after,   *)
(* its lines, and the name that an added line of the form `++ b/name`      *)
(* holds, if there is one.                                                 *)
(***************************************************************************)
EXTENDS Integers, FiniteSets

CONSTANTS ByteCap,      \* the bytes read of a diff
          Pipe,         \* the bytes git may print ahead of the reader
          SecretStores, \* the names file_state.is_secret_store refuses
          Quoted        \* what follows the last ` b/` of each name git quotes

VARIABLES git  \* the child: its process, timer and pipe

NoGit == [proc |-> "none", timer |-> "off", printed |-> 0, read |-> 0]

--------------------------------------------------------------------------------
(* Redaction. *)

Kinds == {"plain", "shell", "pem", "format", "double", "single", "missed"}

(* stringify_compact: double quotes inside a string are escaped. *)
stringify_compact(text) == (text \ {"double"}) \cup (IF "double" \in text THEN {"missed"} ELSE {})

(* It matches no value in single quotes. *)
redact_action(text) == text \ {"shell", "format", "double"}

Literals == {"pem", "format", "double", "single"}

has_credential_literal(text) == text \cap Literals # {}

redact_credential_literals(text) == text \ Literals

is_secret_store(path) == path \in SecretStores

--------------------------------------------------------------------------------
(* What git prints and what is made of it. *)

Lines(path, text) == {path} \X text

Patch(path, lines, plus) == [path |-> path, lines |-> lines, plus |-> plus]

(* Fault: git's rename detection stays on. *)
PatchesWithRenames(changes) ==
  {Patch(c.new, Lines(c.old, c.text) \cup Lines(c.new, c.text), c.plus) : c \in changes}

(* _CANONICAL: a renamed file is one file removed and another added. *)
Patches(changes) ==
  UNION {{Patch(path, Lines(path, c.text), c.plus) : path \in {c.old, c.new}} : c \in changes}

(* The halves of a header name the same path.  Those of a quoted one do    *)
(* not start with a/ and b/: any line `+++ b/name` of the patch gives the  *)
(* path, or else what follows a ` b/` in the header.                       *)
_path_from_header(patch) ==
  LET name == IF patch.path \notin DOMAIN Quoted THEN patch.path
              ELSE IF patch.plus # "none" THEN patch.plus ELSE Quoted[patch.path]
  IN  IF name \in {"", "/", ".."} THEN "none" ELSE name

(* It returns None when one patch has no path. *)
splits(patches) == \A p \in patches : _path_from_header(p) # "none"

split_unified(patches) == {[name |-> _path_from_header(p), lines |-> p.lines] : p \in patches}

(* gate_range._guarded: the files kept, each with its literals redacted. *)
_guarded(files) ==
  {[f EXCEPT !.lines = {l \in @ : l[2] \in redact_credential_literals({l[2]})}] :
     f \in {f \in files : ~is_secret_store(f.name)}}

--------------------------------------------------------------------------------
(* The child. *)

(* What git_diff refuses before it runs git, both ends of the range checked. *)
_names_a_tree(end) == end \in {"commit", "tree"}

_range_ends(range) == range.ends

refused_range(range) ==
  range.empty \/ range.dash \/ range.nul \/ \E end \in _range_ends(range) : ~_names_a_tree(end)

(* Popen and the timer's thread. *)
Popen == git' = [NoGit EXCEPT !.proc = "running", !.timer = "armed"]

GitPrints(total) ==
  /\ git.proc = "running" /\ git.printed < total /\ git.printed < git.read + Pipe
  /\ git' = [git EXCEPT !.printed = @ + 1]

GitExits(total, outcome) ==
  /\ git.proc = "running" /\ git.printed = total
  /\ git' = [git EXCEPT !.proc = outcome]

(* It may also hang. *)
GitStalls == git.proc = "running" /\ UNCHANGED git

(* Fault: the timer is never started. *)
TimerForgotten == FALSE /\ UNCHANGED git

(* GIT_TIMEOUT_SECONDS: kill is a no-op on a child that has ended. *)
TimerFires ==
  /\ git.timer = "armed"
  /\ git' = [git EXCEPT !.timer = "off", !.proc = IF @ = "running" THEN "killed" ELSE @]

ReadPipe ==
  /\ git.read < git.printed /\ git.read <= ByteCap
  /\ git' = [git EXCEPT !.read = @ + 1]

PastCap == git.read > ByteCap

(* The kill and, on leaving the block, the cancelled timer and the reaped child. *)
KillOverBudget == git' = [git EXCEPT !.proc = "reaped", !.timer = "off"]

AtEof == git.proc \in {"exited", "failed", "killed"} /\ git.read = git.printed /\ ~PastCap

(* Fault: what was read is used whatever git's exit code. *)
ReadWhateverExit == git.proc \in {"exited", "failed", "killed"}

(* git's exit code: 0 only when it ran to its end. *)
SucceededDiff == git.proc = "exited"

Reaped == git' = [git EXCEPT !.proc = "reaped", !.timer = "off"]

================================================================================
