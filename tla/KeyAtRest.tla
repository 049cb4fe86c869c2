------------------------------ MODULE KeyAtRest ------------------------------
(***************************************************************************)
(* The local CA on disk: the certificate, its private key, the key's DPAPI *)
(* sidecar and the backups, as scripts/mitm_trust.py and                   *)
(* scripts/core/key_at_rest.py write them, and connect_xray's use of them  *)
(* (scripts/gui.py).                                                       *)
(*                                                                         *)
(* A helper command is a separate process: it may be killed (run_async's   *)
(* timeout) or stopped by an OSError between any two file operations, and  *)
(* a file that is being written is torn until its write is done.  The GUI  *)
(* runs one helper at a time, but does not keep the user from pressing     *)
(* Start Core while one runs.  Key pairs are numbered by generation.       *)
(***************************************************************************)
EXTENDS Integers

CONSTANTS
  dpapi_available,   \* os.name == "nt"
  MaxGens,           \* bound: key pairs generated
  MaxCommands        \* bound: helper commands run

ASSUME KeyAssumption ==
  /\ dpapi_available \in BOOLEAN
  /\ MaxGens \in Nat
  /\ MaxCommands \in Nat

Gens == 1 .. MaxGens
NoFile == 0
Torn == -1      \* part of a key or certificate
Broken == -2    \* part of a sidecar: it does not unprotect

Content == Gens \cup {NoFile, Torn}
NoBackup == [cert |-> NoFile, key |-> NoFile]

VARIABLES
  cert, key,      \* mycert.crt and mycert.key: the generation they hold
  sidecar,        \* mycert.key.dpapi: the key it protects
  backup,         \* the newest directory under cert-backups
  gens,           \* generations so far
  cmd,            \* the running helper command, or "none"
  dialog,         \* it was started from the GUI
  step,           \* its next file operation
  buf,            \* what it has read
  ran,            \* commands started
  connecting,     \* connect_xray's next step on the key, or "no"
  gbuf,           \* what it has read
  overlap,        \* history: a helper ran during this connect
  spawned,        \* the key file Xray was started on
  before,         \* history: the key when the last rotate began
  removed,        \* history: the user had this CA's plaintext removed
  cut,            \* history: a write of the key was cut short
  clobbered,      \* history: an old sidecar was unwrapped over a newer CA
  discarded       \* history: remove-local was run on this CA

files == <<cert, key, sidecar, backup, gens>>
helper == <<cmd, dialog, step, buf, ran>>
gui == <<connecting, gbuf, overlap, spawned>>
history == <<before, removed, cut, clobbered, discarded>>
vars == <<files, helper, gui, history>>

\* A checkout without a CA
Init ==
  /\ cert = NoFile /\ key = NoFile /\ sidecar = NoFile
  /\ backup = NoBackup
  /\ gens = 0
  /\ cmd = "none" /\ dialog = FALSE /\ step = "start" /\ buf = NoFile /\ ran = 0
  /\ connecting = "no" /\ gbuf = NoFile /\ overlap = FALSE /\ spawned = NoFile
  /\ before = NoFile
  /\ removed = FALSE /\ cut = FALSE /\ clobbered = FALSE /\ discarded = FALSE

exists(file) == file # NoFile

key_is_wrapped_only == exists(sidecar) /\ ~exists(key)

-----------------------------------------------------------------------------
(* Running a helper                                                        *)

At(c, s) == cmd \in c /\ step = s

Goto(s) == step' = s /\ UNCHANGED <<cmd, dialog, ran>>

Finish ==
  /\ cmd' = "none" /\ dialog' = FALSE /\ step' = "start" /\ buf' = NoFile
  /\ UNCHANGED ran

Commands == {"wrap", "wrap_remove", "unwrap", "generate", "rotate", "remove_local"}

\* What the dialogs of wrap_private_key_dpapi and unwrap_private_key_dpapi ask
\* before they run the command; the others are run as they are.
DialogAllows(c) ==
  CASE c \in {"wrap", "wrap_remove"} -> exists(key) /\ dpapi_available
    [] c = "unwrap" -> exists(sidecar) /\ dpapi_available
    [] OTHER -> TRUE

\* From the GUI, whose main thread is not inside connect_xray then, or from a
\* terminal while the GUI is closed.
Start(c, d) ==
  /\ cmd = "none" /\ connecting = "no" /\ ran < MaxCommands
  /\ d => DialogAllows(c)
  /\ cmd' = c /\ dialog' = d /\ ran' = ran + 1
  /\ before' = NoFile
  /\ UNCHANGED <<step, buf, files, gui, removed, cut, clobbered, discarded>>

\* Killed, or an OSError: the files stay as they are.
Interrupted ==
  /\ cmd # "none"
  /\ Finish
  /\ cut' = (cut \/ step \in {"write_key", "xray_cert", "xray_key"})
  /\ UNCHANGED <<files, gui, before, removed, clobbered, discarded>>

-----------------------------------------------------------------------------
(* wrap_key_dpapi                                                          *)

WrapReads ==
  /\ At({"wrap", "wrap_remove"}, "start") /\ dpapi_available
  /\ exists(key)
  /\ buf' = key /\ Goto("open_sidecar")
  /\ UNCHANGED <<files, gui, history>>

\* Not Windows, or no key
WrapRefused ==
  /\ At({"wrap", "wrap_remove"}, "start")
  /\ ~dpapi_available \/ ~exists(key)
  /\ Finish /\ UNCHANGED <<files, gui, history>>

\* Mutant: the plaintext goes before the sidecar is on disk.
WrapOpensAndRemoves ==
  /\ At({"wrap", "wrap_remove"}, "open_sidecar")
  /\ sidecar' = Broken
  /\ key' = IF cmd = "wrap_remove" THEN NoFile ELSE key
  /\ Goto("write_sidecar")
  /\ UNCHANGED <<buf, cert, backup, gens, gui, history>>

\* write_bytes truncates the old sidecar first.
WrapOpens ==
  /\ At({"wrap", "wrap_remove"}, "open_sidecar")
  /\ sidecar' = Broken
  /\ Goto("write_sidecar")
  /\ UNCHANGED <<buf, cert, key, backup, gens, gui, history>>

WrapWrites ==
  /\ At({"wrap", "wrap_remove"}, "write_sidecar")
  /\ sidecar' = buf
  /\ IF cmd = "wrap" THEN Finish ELSE Goto("unlink") /\ UNCHANGED buf
  /\ UNCHANGED <<cert, key, backup, gens, gui, history>>

WrapUnlinks ==
  /\ At({"wrap_remove"}, "unlink")
  /\ key' = NoFile
  /\ Finish
  /\ removed' = TRUE
  /\ UNCHANGED <<cert, sidecar, backup, gens, gui, before, cut, clobbered, discarded>>

wrap_key_dpapi == WrapReads \/ WrapRefused \/ WrapOpens \/ WrapWrites \/ WrapUnlinks

-----------------------------------------------------------------------------
(* unwrap_key_dpapi, by the helper; the sidecar stays.                     *)

\* What CryptUnprotectData can make of the sidecar
Unprotects == dpapi_available /\ exists(sidecar) /\ sidecar # Broken

UnwrapReads ==
  /\ At({"unwrap"}, "start") /\ Unprotects
  /\ buf' = sidecar /\ Goto("open_key")
  /\ UNCHANGED <<files, gui, history>>

UnwrapRefused ==
  /\ At({"unwrap"}, "start") /\ ~Unprotects
  /\ Finish /\ UNCHANGED <<files, gui, history>>

UnwrapOpens ==
  /\ At({"unwrap"}, "open_key")
  /\ key' = Torn
  /\ Goto("write_key")
  /\ clobbered' = (clobbered \/ buf # gens)
  /\ UNCHANGED <<buf, cert, sidecar, backup, gens, gui, before, removed, cut, discarded>>

UnwrapWrites ==
  /\ At({"unwrap"}, "write_key")
  /\ key' = buf
  /\ Finish
  /\ removed' = FALSE
  /\ cut' = (cut /\ ~(buf = gens /\ cert = gens))
  /\ UNCHANGED <<cert, sidecar, backup, gens, gui, before, clobbered, discarded>>

unwrap_key_dpapi == UnwrapReads \/ UnwrapRefused \/ UnwrapOpens \/ UnwrapWrites

-----------------------------------------------------------------------------
(* generate, with (rotate, emergency) and without backup                   *)

\* Mutants: a backup whose files stay when they are there already, and one that
\* moves the certificate.
BackupKeepsOld ==
  /\ At({"rotate"}, "backup_key")
  /\ backup' = IF exists(key) /\ ~exists(backup.key) THEN [backup EXCEPT !.key = key] ELSE backup
  /\ Goto("xray")
  /\ UNCHANGED <<buf, cert, key, sidecar, gens, gui, history>>
BackupMovesCert ==
  /\ At({"rotate"}, "start")
  /\ before' = key
  /\ IF exists(cert) \/ exists(key)
     THEN Goto("backup_key") /\ backup' = [cert |-> cert, key |-> NoFile] /\ cert' = NoFile
     ELSE Goto("xray") /\ UNCHANGED <<backup, cert>>
  /\ UNCHANGED <<buf, key, sidecar, gens, gui, removed, cut, clobbered, discarded>>

\* backup_existing, the certificate then the key; the sidecar is not copied.
\* The directory has the second for its name: it is a new one, or that of the
\* last rotation, whose files stay unless they are copied over.
BackupCert ==
  /\ At({"rotate"}, "start")
  /\ before' = key
  /\ IF exists(cert) \/ exists(key)
     THEN /\ Goto("backup_key")
          /\ \E dir \in {NoBackup, backup} :
               backup' = IF exists(cert) THEN [dir EXCEPT !.cert = cert] ELSE dir
     ELSE Goto("xray") /\ UNCHANGED backup
  /\ UNCHANGED <<buf, cert, key, sidecar, gens, gui, removed, cut, clobbered, discarded>>

BackupKey ==
  /\ At({"rotate"}, "backup_key")
  /\ backup' = IF exists(key) THEN [backup EXCEPT !.key = key] ELSE backup
  /\ Goto("xray")
  /\ UNCHANGED <<buf, cert, key, sidecar, gens, gui, history>>

GenerateSkipsBackup ==
  /\ At({"generate"}, "start")
  /\ Goto("xray")
  /\ UNCHANGED <<buf, files, gui, history>>

\* No xray binary, or it fails before it writes
GenerateFails ==
  /\ At({"generate", "rotate"}, "xray")
  /\ Finish /\ UNCHANGED <<files, gui, history>>

\* xray tls cert writes the two files of a new pair, in either order.
XrayFirst ==
  /\ At({"generate", "rotate"}, "xray") /\ gens < MaxGens
  /\ gens' = gens + 1
  /\ \/ cert' = gens + 1 /\ Goto("xray_key") /\ UNCHANGED key
     \/ key' = gens + 1 /\ Goto("xray_cert") /\ UNCHANGED cert
  /\ removed' = FALSE /\ discarded' = FALSE
  /\ UNCHANGED <<buf, sidecar, backup, gui, before, cut, clobbered>>

XraySecond ==
  /\ \/ At({"generate", "rotate"}, "xray_cert") /\ cert' = gens /\ UNCHANGED key
     \/ At({"generate", "rotate"}, "xray_key") /\ key' = gens /\ UNCHANGED cert
  /\ Finish
  /\ cut' = FALSE /\ clobbered' = (key' # gens)
  /\ UNCHANGED <<sidecar, backup, gens, gui, before, removed, discarded>>

generate ==
  \/ BackupCert \/ BackupKey \/ GenerateSkipsBackup
  \/ GenerateFails \/ XrayFirst \/ XraySecond

-----------------------------------------------------------------------------
(* remove_local: the certificate, then the key; the sidecar stays.         *)

RemoveCert ==
  /\ At({"remove_local"}, "start")
  /\ cert' = NoFile
  /\ Goto("remove_key")
  /\ discarded' = TRUE
  /\ UNCHANGED <<buf, key, sidecar, backup, gens, gui, before, removed, cut, clobbered>>

RemoveKey ==
  /\ At({"remove_local"}, "remove_key")
  /\ key' = NoFile
  /\ Finish
  /\ UNCHANGED <<cert, sidecar, backup, gens, gui, history>>

remove_local == RemoveCert \/ RemoveKey

-----------------------------------------------------------------------------
(* connect_xray: ensure_key_material_available, then the start of Xray.    *)

\* The GUI is open and its main thread is free.
MayConnect == connecting = "no" /\ (cmd = "none" \/ dialog)

Overlapping == overlap' = (overlap \/ cmd # "none")

\* Mutant: a sidecar will do.
EnsureEither ==
  /\ MayConnect
  /\ exists(key) \/ exists(sidecar)
  /\ connecting' = "spawn"
  /\ overlap' = (cmd # "none")
  /\ UNCHANGED <<gbuf, spawned, files, helper, history>>

\* The key file is there, whatever is in it.
EnsurePresent ==
  /\ MayConnect
  /\ exists(key)
  /\ connecting' = "spawn"
  /\ overlap' = (cmd # "none")
  /\ UNCHANGED <<gbuf, spawned, files, helper, history>>

EnsureReads ==
  /\ MayConnect
  /\ key_is_wrapped_only /\ Unprotects
  /\ gbuf' = sidecar /\ connecting' = "open_key"
  /\ overlap' = (cmd # "none")
  /\ UNCHANGED <<spawned, files, helper, history>>

EnsureOpens ==
  /\ connecting = "open_key"
  /\ key' = Torn
  /\ connecting' = "write_key"
  /\ Overlapping
  /\ clobbered' = (clobbered \/ gbuf # gens)
  /\ UNCHANGED <<gbuf, spawned, cert, sidecar, backup, gens, helper, before, removed,
                 cut, discarded>>

EnsureWrites ==
  /\ connecting = "write_key"
  /\ key' = gbuf
  /\ connecting' = "spawn"
  /\ Overlapping
  /\ clobbered' = (clobbered \/ gbuf # gens)
  /\ UNCHANGED <<gbuf, spawned, cert, sidecar, backup, gens, helper, before, removed,
                 cut, discarded>>

SpawnXray ==
  /\ connecting = "spawn"
  /\ spawned' = key
  /\ connecting' = "no" /\ gbuf' = NoFile
  /\ Overlapping
  /\ UNCHANGED <<files, helper, history>>

\* A later check of connect_xray returns without a start.
ConnectBlocked ==
  /\ connecting = "spawn"
  /\ connecting' = "no" /\ gbuf' = NoFile
  /\ Overlapping
  /\ UNCHANGED <<spawned, files, helper, history>>

\* The GUI dies in the middle of connect_xray, or its write raises.
ConnectCut ==
  /\ connecting # "no"
  /\ connecting' = "no" /\ gbuf' = NoFile
  /\ cut' = (cut \/ connecting = "write_key")
  /\ Overlapping
  /\ UNCHANGED <<spawned, files, helper, before, removed, clobbered, discarded>>

connect_xray ==
  \/ EnsurePresent \/ EnsureReads \/ EnsureOpens \/ EnsureWrites
  \/ SpawnXray \/ ConnectBlocked \/ ConnectCut

-----------------------------------------------------------------------------
Next ==
  \/ \E c \in Commands, d \in BOOLEAN : Start(c, d)
  \/ Interrupted
  \/ wrap_key_dpapi
  \/ unwrap_key_dpapi
  \/ generate
  \/ remove_local
  \/ connect_xray

Spec == Init /\ [][Next]_vars
-----------------------------------------------------------------------------
(* Properties                                                              *)

Steps == {"start", "open_sidecar", "write_sidecar", "unlink", "open_key", "write_key",
          "backup_key", "xray", "xray_cert", "xray_key", "remove_key"}

\* The types; in particular nothing that was not read is ever written over a
\* sidecar or a key.
TypeOK ==
  /\ {cert, key, spawned, before} \subseteq Content
  /\ backup \in [cert : Content, key : Content]
  /\ sidecar \in Content \cup {Broken}
  /\ gens \in 0 .. MaxGens
  /\ cmd \in Commands \cup {"none"}
  /\ step \in Steps
  /\ buf \in Content /\ gbuf \in Content
  /\ step \in {"open_sidecar", "write_sidecar", "open_key", "write_key"} => exists(buf)
  /\ connecting \in {"no", "open_key", "write_key", "spawn"}
  /\ connecting \in {"open_key", "write_key"} => exists(gbuf)
  /\ ran \in 0 .. MaxCommands
  /\ {dialog, overlap, removed, cut, clobbered, discarded} \subseteq BOOLEAN

\* The key of the newest CA is still on disk, in the plaintext file or in the
\* sidecar, through any sequence of wraps, unwraps and connects, killed
\* anywhere.  What may lose it is named: a write of the key cut short, an old
\* sidecar unwrapped over it, remove-local, a generation in progress.
KeySurvives ==
  (/\ gens > 0
   /\ ~cut /\ ~clobbered /\ ~discarded
   /\ step # "xray_key")
  => gens \in {key, sidecar}

\* At every point of a rotation, and after one that was killed, the key that was
\* in use when it began is in the key file or in the backup, also when the backup
\* goes to the directory of an earlier rotation (backup_existing).
RotateIsUndoable == before \in Gens => before \in {key, backup.key}

\* Between commands the certificate and the key are of one pair, unless one of
\* the named accidents happened.
PairAgrees ==
  (/\ cmd = "none" /\ connecting = "no"
   /\ ~cut /\ ~clobbered /\ ~discarded
   /\ key \in Gens)
  => cert = key

\* Xray is started on a whole key, but for four named accidents: a helper command
\* ran meanwhile, a write of the key had been cut short, an old sidecar or a start
\* of the GUI had written over a newer CA's key, or remove-local had been run on
\* this CA.  ensure_key_material_available only looks whether the file is there
\* (key_at_rest.py:193).
StartsOnWholeKey ==
  [][SpawnXray => key \in Gens \/ overlap' \/ cut \/ clobbered \/ discarded]_vars

\* What the dialog of wrap_private_key_dpapi (gui.py:5842-5844) says: once the
\* plaintext is deleted, Xray's start unwraps the key in memory; the plaintext
\* stays off the disk until the user unwraps it or makes a new CA.
WrappedStaysWrapped == removed => key = NoFile
=============================================================================
