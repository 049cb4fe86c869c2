-------------------------- MODULE KeyAtRestProofs --------------------------
(***************************************************************************)
(* Proofs about KeyAtRest for any number of key pairs and commands, with   *)
(* and without DPAPI: the newest key survives, a rotation can be undone,   *)
(* certificate and key are of one pair, and Xray starts on a whole key.    *)
(*                                                                         *)
(* All four follow from one inductive invariant, KeyInv.  It says what the *)
(* file operations of one command rely on while connect_xray runs beside   *)
(* it.                                                                     *)
(***************************************************************************)
EXTENDS KeyAtRest, TLAPS

Wraps == {"wrap", "wrap_remove"}
Makers == {"generate", "rotate"}

\* Each step belongs to a command, and no step is left when none runs.
StepOfCommand ==
  /\ cmd = "none" => step = "start"
  /\ step \in {"open_sidecar", "write_sidecar"} => cmd \in Wraps
  /\ step = "unlink" => cmd = "wrap_remove"
  /\ step \in {"open_key", "write_key"} => cmd = "unwrap"
  /\ step \in {"xray", "xray_cert", "xray_key"} => cmd \in Makers
  /\ step = "backup_key" => cmd = "rotate"
  /\ step = "remove_key" => cmd = "remove_local"

\* connect_xray is about to write the key file, or is writing it.
ConnectWrites == connecting \in {"open_key", "write_key"}

\* A connect runs beside a command only if the GUI started that command, and
\* a connect that writes the key never runs beside a wrap: the dialog asked
\* for a key file, and nothing takes it away before the wrap does.
ConnectBeside ==
  /\ connecting # "no" /\ cmd # "none" => dialog
  /\ dialog /\ cmd \in Wraps => exists(key)
  /\ ConnectWrites => cmd \notin Wraps
  /\ connecting # "no" /\ ~overlap => cmd = "none"
  /\ connecting = "spawn" /\ ~overlap => exists(key)

\* Who is about to write a key file still holds what the sidecar holds.
BuffersCurrent ==
  /\ ConnectWrites => gbuf = sidecar
  /\ step \in {"open_key", "write_key"} => buf = sidecar
  /\ step = "write_key" /\ ~clobbered => buf = gens
  /\ step = "unlink" => sidecar = buf

\* Before the first pair there is nothing to wrap or to unwrap.
NothingYet ==
  gens = 0 => /\ key = NoFile /\ sidecar = NoFile
              /\ step \in {"start", "backup_key", "xray", "remove_key"}
              /\ ~ConnectWrites

\* None of the accidents that the properties name has happened.
Intact ==
  /\ gens > 0 /\ ~cut /\ ~clobbered /\ ~discarded /\ step # "xray_key"

\* Then the newest key is in the key file whenever that file is there and
\* nobody is writing it, a wrap holds it, and the certificate goes with it.
NewestInPlace ==
  Intact =>
    /\ gens \in {key, sidecar}
    /\ exists(key) /\ step # "write_key" /\ connecting # "write_key" => key = gens
    /\ step \in {"open_sidecar", "write_sidecar", "unlink"} => key = gens /\ buf = gens
    /\ step # "xray_cert" => cert = gens

WrittenFirst ==
  /\ step = "xray_key" => cert = gens
  /\ step = "remove_key" => discarded

\* What a rotation has put aside, step by step.
RotationKeeps ==
  /\ cmd \notin {"none", "rotate"} => before = NoFile
  /\ cmd = "rotate" /\ step = "start" =>
       /\ before = NoFile
       /\ connecting = "open_key" => key = NoFile
       /\ connecting = "write_key" => key = Torn
  /\ step = "backup_key" /\ before \in Gens => key = before /\ ~ConnectWrites
  /\ before \in Gens /\ before # backup.key => key = before /\ ~ConnectWrites
  /\ step \in {"xray", "xray_cert", "xray_key"} /\ before \in Gens => backup.key = before

KeyInv ==
  /\ TypeOK
  /\ StepOfCommand
  /\ ConnectBeside
  /\ BuffersCurrent
  /\ NothingYet
  /\ NewestInPlace
  /\ WrittenFirst
  /\ RotationKeeps

-----------------------------------------------------------------------------
(* One step, one part of the invariant at a time                           *)

\* Every file operation keeps the types.
LEMMA TypeStep ==
  ASSUME TypeOK, StepOfCommand, NothingYet, [Next]_vars
  PROVE  TypeOK'
<1> USE KeyAssumption DEF files, helper, gui, history, TypeOK, StepOfCommand, NothingYet,
            Wraps, Makers, Commands, Steps, Content, Gens, NoFile, Torn, Broken, exists
<1>1. ASSUME NEW c \in Commands, NEW d \in BOOLEAN, Start(c, d)
      PROVE  TypeOK'
  BY <1>1 DEF Start, DialogAllows
<1>2. CASE Interrupted
  BY <1>2 DEF Interrupted, Finish
<1>3. CASE WrapReads
  BY <1>3 DEF WrapReads, At, Goto
<1>4. CASE WrapRefused
  BY <1>4 DEF WrapRefused, At, Finish
<1>5. CASE WrapOpens
  BY <1>5 DEF WrapOpens, At, Goto
<1>6. CASE WrapWrites
  BY <1>6 DEF WrapWrites, At, Goto, Finish
<1>7. CASE WrapUnlinks
  BY <1>7 DEF WrapUnlinks, At, Finish
<1>8. CASE UnwrapReads
  BY <1>8 DEF UnwrapReads, At, Goto, Unprotects
<1>9. CASE UnwrapRefused
  BY <1>9 DEF UnwrapRefused, At, Finish
<1>10. CASE UnwrapOpens
  BY <1>10 DEF UnwrapOpens, At, Goto
<1>11. CASE UnwrapWrites
  BY <1>11 DEF UnwrapWrites, At, Finish
<1>12. CASE BackupCert
  <2>1. backup' \in [cert : Content, key : Content]
    BY <1>12 DEF BackupCert, NoBackup
  <2>2. /\ step' \in Steps \ {"open_sidecar", "write_sidecar", "open_key", "write_key"}
        /\ {cert, key, spawned, before}' \subseteq Content
        /\ UNCHANGED <<cmd, dialog, ran, buf, gens, sidecar, gui, removed, cut, clobbered,
                       discarded>>
    BY <1>12 DEF BackupCert, Goto
  <2> QED
    BY <2>1, <2>2
<1>13. CASE BackupKey
  BY <1>13 DEF BackupKey, At, Goto
<1>14. CASE GenerateSkipsBackup
  BY <1>14 DEF GenerateSkipsBackup, At, Goto
<1>15. CASE GenerateFails
  BY <1>15 DEF GenerateFails, At, Finish
<1>16. CASE XrayFirst
  <2>1. gens + 1 \in Gens
    BY <1>16 DEF XrayFirst
  <2>2. {dialog, overlap, removed, cut, clobbered, discarded}' \subseteq BOOLEAN
    BY <1>16, Zenon DEF XrayFirst, Goto
  <2>3. {cert, key, spawned, before}' \subseteq Content
    BY <1>16, <2>1 DEF XrayFirst
  <2>4. backup' \in [cert : Content, key : Content] /\ gens' \in 0 .. MaxGens
    BY <1>16, <2>1 DEF XrayFirst
  <2>5. cmd' = cmd /\ ran' = ran /\ step' \in {"xray_cert", "xray_key"}
    BY <1>16 DEF XrayFirst, Goto
  <2> QED
    BY <1>16, <2>2, <2>3, <2>4, <2>5, Zenon DEF XrayFirst
<1>17. CASE XraySecond
  <2>1. gens \in Gens
    BY <1>17 DEF XraySecond, At
  <2> QED
    BY <1>17, <2>1 DEF XraySecond, At, Finish
<1>18. CASE RemoveCert
  BY <1>18 DEF RemoveCert, At, Goto
<1>19. CASE RemoveKey
  BY <1>19 DEF RemoveKey, At, Finish
<1>20. CASE EnsurePresent
  BY <1>20 DEF EnsurePresent, MayConnect
<1>21. CASE EnsureReads
  BY <1>21 DEF EnsureReads, MayConnect, key_is_wrapped_only, Unprotects
<1>22. CASE EnsureOpens
  BY <1>22 DEF EnsureOpens, Overlapping
<1>23. CASE EnsureWrites
  BY <1>23 DEF EnsureWrites, Overlapping
<1>24. CASE SpawnXray
  BY <1>24 DEF SpawnXray, Overlapping
<1>25. CASE ConnectBlocked
  BY <1>25 DEF ConnectBlocked, Overlapping
<1>26. CASE ConnectCut
  BY <1>26 DEF ConnectCut, Overlapping
<1>27. CASE UNCHANGED vars
  BY <1>27 DEF vars
<1> QED
  BY <1>1, <1>2, <1>3, <1>4, <1>5, <1>6, <1>7, <1>8, <1>9, <1>10, <1>11, <1>12, <1>13,
     <1>14, <1>15, <1>16, <1>17, <1>18, <1>19, <1>20, <1>21, <1>22, <1>23, <1>24,
     <1>25, <1>26, <1>27
  DEF Next, wrap_key_dpapi, unwrap_key_dpapi, generate, remove_local, connect_xray

\* A command only takes steps of its own.
LEMMA StepOfCommandStep ==
  ASSUME StepOfCommand, [Next]_vars
  PROVE  StepOfCommand'
<1> USE DEF files, helper, gui, history, StepOfCommand, Wraps, Makers, Commands
<1>1. ASSUME NEW c \in Commands, NEW d \in BOOLEAN, Start(c, d)
      PROVE  StepOfCommand'
  BY <1>1 DEF Start, DialogAllows
<1>2. CASE Interrupted
  BY <1>2 DEF Interrupted, Finish
<1>3. CASE WrapReads
  BY <1>3 DEF WrapReads, At, Goto
<1>4. CASE WrapRefused
  BY <1>4 DEF WrapRefused, At, Finish
<1>5. CASE WrapOpens
  BY <1>5 DEF WrapOpens, At, Goto
<1>6. CASE WrapWrites
  BY <1>6 DEF WrapWrites, At, Goto, Finish
<1>7. CASE WrapUnlinks
  BY <1>7 DEF WrapUnlinks, At, Finish
<1>8. CASE UnwrapReads
  BY <1>8 DEF UnwrapReads, At, Goto, Unprotects
<1>9. CASE UnwrapRefused
  BY <1>9 DEF UnwrapRefused, At, Finish
<1>10. CASE UnwrapOpens
  BY <1>10 DEF UnwrapOpens, At, Goto
<1>11. CASE UnwrapWrites
  BY <1>11 DEF UnwrapWrites, At, Finish
<1>12. CASE BackupCert
  BY <1>12 DEF BackupCert, At, Goto
<1>13. CASE BackupKey
  BY <1>13 DEF BackupKey, At, Goto
<1>14. CASE GenerateSkipsBackup
  BY <1>14 DEF GenerateSkipsBackup, At, Goto
<1>15. CASE GenerateFails
  BY <1>15 DEF GenerateFails, At, Finish
<1>16. CASE XrayFirst
  BY <1>16 DEF XrayFirst, At, Goto
<1>17. CASE XraySecond
  BY <1>17 DEF XraySecond, At, Finish
<1>18. CASE RemoveCert
  BY <1>18 DEF RemoveCert, At, Goto
<1>19. CASE RemoveKey
  BY <1>19 DEF RemoveKey, At, Finish
<1>20. CASE EnsurePresent
  BY <1>20 DEF EnsurePresent, MayConnect
<1>21. CASE EnsureReads
  BY <1>21 DEF EnsureReads, MayConnect, key_is_wrapped_only, Unprotects
<1>22. CASE EnsureOpens
  BY <1>22 DEF EnsureOpens, Overlapping
<1>23. CASE EnsureWrites
  BY <1>23 DEF EnsureWrites, Overlapping
<1>24. CASE SpawnXray
  BY <1>24 DEF SpawnXray, Overlapping
<1>25. CASE ConnectBlocked
  BY <1>25 DEF ConnectBlocked, Overlapping
<1>26. CASE ConnectCut
  BY <1>26 DEF ConnectCut, Overlapping
<1>27. CASE UNCHANGED vars
  BY <1>27 DEF vars
<1> QED
  BY <1>1, <1>2, <1>3, <1>4, <1>5, <1>6, <1>7, <1>8, <1>9, <1>10, <1>11, <1>12, <1>13,
     <1>14, <1>15, <1>16, <1>17, <1>18, <1>19, <1>20, <1>21, <1>22, <1>23, <1>24,
     <1>25, <1>26, <1>27
  DEF Next, wrap_key_dpapi, unwrap_key_dpapi, generate, remove_local, connect_xray

\* A connect that writes the key never meets a wrap.
LEMMA ConnectBesideStep ==
  ASSUME TypeOK, StepOfCommand, ConnectBeside, [Next]_vars
  PROVE  ConnectBeside'
<1> USE DEF files, helper, gui, history, TypeOK, StepOfCommand, ConnectBeside,
            ConnectWrites, Wraps, Makers, Commands, exists, NoFile, Torn, Gens, Content
<1>1. ASSUME NEW c \in Commands, NEW d \in BOOLEAN, Start(c, d)
      PROVE  ConnectBeside'
  BY <1>1 DEF Start, DialogAllows
<1>2. CASE Interrupted
  BY <1>2 DEF Interrupted, Finish
<1>3. CASE WrapReads
  BY <1>3 DEF WrapReads, At, Goto
<1>4. CASE WrapRefused
  BY <1>4 DEF WrapRefused, At, Finish
<1>5. CASE WrapOpens
  BY <1>5 DEF WrapOpens, At, Goto
<1>6. CASE WrapWrites
  BY <1>6 DEF WrapWrites, At, Goto, Finish
<1>7. CASE WrapUnlinks
  BY <1>7 DEF WrapUnlinks, At, Finish
<1>8. CASE UnwrapReads
  BY <1>8 DEF UnwrapReads, At, Goto, Unprotects
<1>9. CASE UnwrapRefused
  BY <1>9 DEF UnwrapRefused, At, Finish
<1>10. CASE UnwrapOpens
  BY <1>10 DEF UnwrapOpens, At, Goto
<1>11. CASE UnwrapWrites
  BY <1>11 DEF UnwrapWrites, At, Finish
<1>12. CASE BackupCert
  BY <1>12 DEF BackupCert, At, Goto
<1>13. CASE BackupKey
  BY <1>13 DEF BackupKey, At, Goto
<1>14. CASE GenerateSkipsBackup
  BY <1>14 DEF GenerateSkipsBackup, At, Goto
<1>15. CASE GenerateFails
  BY <1>15 DEF GenerateFails, At, Finish
<1>16. CASE XrayFirst
  BY <1>16 DEF XrayFirst, At, Goto
<1>17. CASE XraySecond
  BY <1>17 DEF XraySecond, At, Finish
<1>18. CASE RemoveCert
  BY <1>18 DEF RemoveCert, At, Goto
<1>19. CASE RemoveKey
  BY <1>19 DEF RemoveKey, At, Finish
<1>20. CASE EnsurePresent
  BY <1>20 DEF EnsurePresent, MayConnect
<1>21. CASE EnsureReads
  BY <1>21 DEF EnsureReads, MayConnect, key_is_wrapped_only, Unprotects
<1>22. CASE EnsureOpens
  BY <1>22 DEF EnsureOpens, Overlapping
<1>23. CASE EnsureWrites
  BY <1>23 DEF EnsureWrites, Overlapping
<1>24. CASE SpawnXray
  BY <1>24 DEF SpawnXray, Overlapping
<1>25. CASE ConnectBlocked
  BY <1>25 DEF ConnectBlocked, Overlapping
<1>26. CASE ConnectCut
  BY <1>26 DEF ConnectCut, Overlapping
<1>27. CASE UNCHANGED vars
  BY <1>27 DEF vars
<1> QED
  BY <1>1, <1>2, <1>3, <1>4, <1>5, <1>6, <1>7, <1>8, <1>9, <1>10, <1>11, <1>12, <1>13,
     <1>14, <1>15, <1>16, <1>17, <1>18, <1>19, <1>20, <1>21, <1>22, <1>23, <1>24,
     <1>25, <1>26, <1>27
  DEF Next, wrap_key_dpapi, unwrap_key_dpapi, generate, remove_local, connect_xray

\* Only a wrap writes the sidecar, and then nobody holds a copy of it.
LEMMA BuffersCurrentStep ==
  ASSUME TypeOK, StepOfCommand, ConnectBeside, BuffersCurrent, [Next]_vars
  PROVE  BuffersCurrent'
<1> USE DEF files, helper, gui, history, StepOfCommand, ConnectBeside, BuffersCurrent,
            ConnectWrites, Wraps, Makers, Commands
<1>1. ASSUME NEW c \in Commands, NEW d \in BOOLEAN, Start(c, d)
      PROVE  BuffersCurrent'
  BY <1>1 DEF Start, DialogAllows
<1>2. CASE Interrupted
  BY <1>2 DEF Interrupted, Finish
<1>3. CASE WrapReads
  BY <1>3 DEF WrapReads, At, Goto
<1>4. CASE WrapRefused
  BY <1>4 DEF WrapRefused, At, Finish
<1>5. CASE WrapOpens
  BY <1>5 DEF WrapOpens, At, Goto
<1>6. CASE WrapWrites
  BY <1>6 DEF WrapWrites, At, Goto, Finish
<1>7. CASE WrapUnlinks
  BY <1>7 DEF WrapUnlinks, At, Finish
<1>8. CASE UnwrapReads
  BY <1>8 DEF UnwrapReads, At, Goto, Unprotects
<1>9. CASE UnwrapRefused
  BY <1>9 DEF UnwrapRefused, At, Finish
<1>10. CASE UnwrapOpens
  BY <1>10 DEF UnwrapOpens, At, Goto
<1>11. CASE UnwrapWrites
  BY <1>11 DEF UnwrapWrites, At, Finish
<1>12. CASE BackupCert
  BY <1>12 DEF BackupCert, At, Goto
<1>13. CASE BackupKey
  BY <1>13 DEF BackupKey, At, Goto
<1>14. CASE GenerateSkipsBackup
  BY <1>14 DEF GenerateSkipsBackup, At, Goto
<1>15. CASE GenerateFails
  BY <1>15 DEF GenerateFails, At, Finish
<1>16. CASE XrayFirst
  BY <1>16 DEF XrayFirst, At, Goto
<1>17. CASE XraySecond
  BY <1>17 DEF XraySecond, At, Finish
<1>18. CASE RemoveCert
  BY <1>18 DEF RemoveCert, At, Goto
<1>19. CASE RemoveKey
  BY <1>19 DEF RemoveKey, At, Finish
<1>20. CASE EnsurePresent
  BY <1>20 DEF EnsurePresent, MayConnect
<1>21. CASE EnsureReads
  BY <1>21 DEF EnsureReads, MayConnect, key_is_wrapped_only, Unprotects
<1>22. CASE EnsureOpens
  BY <1>22 DEF EnsureOpens, Overlapping
<1>23. CASE EnsureWrites
  BY <1>23 DEF EnsureWrites, Overlapping
<1>24. CASE SpawnXray
  BY <1>24 DEF SpawnXray, Overlapping
<1>25. CASE ConnectBlocked
  BY <1>25 DEF ConnectBlocked, Overlapping
<1>26. CASE ConnectCut
  BY <1>26 DEF ConnectCut, Overlapping
<1>27. CASE UNCHANGED vars
  BY <1>27 DEF vars
<1> QED
  BY <1>1, <1>2, <1>3, <1>4, <1>5, <1>6, <1>7, <1>8, <1>9, <1>10, <1>11, <1>12, <1>13,
     <1>14, <1>15, <1>16, <1>17, <1>18, <1>19, <1>20, <1>21, <1>22, <1>23, <1>24,
     <1>25, <1>26, <1>27
  DEF Next, wrap_key_dpapi, unwrap_key_dpapi, generate, remove_local, connect_xray

\* The first file comes with the first pair.
LEMMA NothingYetStep ==
  ASSUME TypeOK, StepOfCommand, NothingYet, [Next]_vars
  PROVE  NothingYet'
<1> USE DEF files, helper, gui, history, TypeOK, StepOfCommand, NothingYet, ConnectWrites,
            Wraps, Makers, Commands, exists, NoFile, Content, Gens
<1>1. ASSUME NEW c \in Commands, NEW d \in BOOLEAN, Start(c, d)
      PROVE  NothingYet'
  BY <1>1 DEF Start, DialogAllows
<1>2. CASE Interrupted
  BY <1>2 DEF Interrupted, Finish
<1>3. CASE WrapReads
  BY <1>3 DEF WrapReads, At, Goto
<1>4. CASE WrapRefused
  BY <1>4 DEF WrapRefused, At, Finish
<1>5. CASE WrapOpens
  BY <1>5 DEF WrapOpens, At, Goto
<1>6. CASE WrapWrites
  BY <1>6 DEF WrapWrites, At, Goto, Finish
<1>7. CASE WrapUnlinks
  BY <1>7 DEF WrapUnlinks, At, Finish
<1>8. CASE UnwrapReads
  BY <1>8 DEF UnwrapReads, At, Goto, Unprotects
<1>9. CASE UnwrapRefused
  BY <1>9 DEF UnwrapRefused, At, Finish
<1>10. CASE UnwrapOpens
  BY <1>10 DEF UnwrapOpens, At, Goto
<1>11. CASE UnwrapWrites
  BY <1>11 DEF UnwrapWrites, At, Finish
<1>12. CASE BackupCert
  BY <1>12 DEF BackupCert, At, Goto
<1>13. CASE BackupKey
  BY <1>13 DEF BackupKey, At, Goto
<1>14. CASE GenerateSkipsBackup
  BY <1>14 DEF GenerateSkipsBackup, At, Goto
<1>15. CASE GenerateFails
  BY <1>15 DEF GenerateFails, At, Finish
<1>16. CASE XrayFirst
  BY <1>16 DEF XrayFirst, At, Goto
<1>17. CASE XraySecond
  BY <1>17 DEF XraySecond, At, Finish
<1>18. CASE RemoveCert
  BY <1>18 DEF RemoveCert, At, Goto
<1>19. CASE RemoveKey
  BY <1>19 DEF RemoveKey, At, Finish
<1>20. CASE EnsurePresent
  BY <1>20 DEF EnsurePresent, MayConnect
<1>21. CASE EnsureReads
  BY <1>21 DEF EnsureReads, MayConnect, key_is_wrapped_only, Unprotects
<1>22. CASE EnsureOpens
  BY <1>22 DEF EnsureOpens, Overlapping
<1>23. CASE EnsureWrites
  BY <1>23 DEF EnsureWrites, Overlapping
<1>24. CASE SpawnXray
  BY <1>24 DEF SpawnXray, Overlapping
<1>25. CASE ConnectBlocked
  BY <1>25 DEF ConnectBlocked, Overlapping
<1>26. CASE ConnectCut
  BY <1>26 DEF ConnectCut, Overlapping
<1>27. CASE UNCHANGED vars
  BY <1>27 DEF vars
<1> QED
  BY <1>1, <1>2, <1>3, <1>4, <1>5, <1>6, <1>7, <1>8, <1>9, <1>10, <1>11, <1>12, <1>13,
     <1>14, <1>15, <1>16, <1>17, <1>18, <1>19, <1>20, <1>21, <1>22, <1>23, <1>24,
     <1>25, <1>26, <1>27
  DEF Next, wrap_key_dpapi, unwrap_key_dpapi, generate, remove_local, connect_xray

\* The two files of a pair, and the two that are removed, come in order.
LEMMA WrittenFirstStep ==
  ASSUME StepOfCommand, WrittenFirst, [Next]_vars
  PROVE  WrittenFirst'
<1> USE DEF files, helper, gui, history, StepOfCommand, WrittenFirst, Wraps, Makers,
            Commands
<1>1. ASSUME NEW c \in Commands, NEW d \in BOOLEAN, Start(c, d)
      PROVE  WrittenFirst'
  BY <1>1 DEF Start, DialogAllows
<1>2. CASE Interrupted
  BY <1>2 DEF Interrupted, Finish
<1>3. CASE WrapReads
  BY <1>3 DEF WrapReads, At, Goto
<1>4. CASE WrapRefused
  BY <1>4 DEF WrapRefused, At, Finish
<1>5. CASE WrapOpens
  BY <1>5 DEF WrapOpens, At, Goto
<1>6. CASE WrapWrites
  BY <1>6 DEF WrapWrites, At, Goto, Finish
<1>7. CASE WrapUnlinks
  BY <1>7 DEF WrapUnlinks, At, Finish
<1>8. CASE UnwrapReads
  BY <1>8 DEF UnwrapReads, At, Goto, Unprotects
<1>9. CASE UnwrapRefused
  BY <1>9 DEF UnwrapRefused, At, Finish
<1>10. CASE UnwrapOpens
  BY <1>10 DEF UnwrapOpens, At, Goto
<1>11. CASE UnwrapWrites
  BY <1>11 DEF UnwrapWrites, At, Finish
<1>12. CASE BackupCert
  BY <1>12 DEF BackupCert, At, Goto
<1>13. CASE BackupKey
  BY <1>13 DEF BackupKey, At, Goto
<1>14. CASE GenerateSkipsBackup
  BY <1>14 DEF GenerateSkipsBackup, At, Goto
<1>15. CASE GenerateFails
  BY <1>15 DEF GenerateFails, At, Finish
<1>16. CASE XrayFirst
  BY <1>16 DEF XrayFirst, At, Goto
<1>17. CASE XraySecond
  BY <1>17 DEF XraySecond, At, Finish
<1>18. CASE RemoveCert
  BY <1>18 DEF RemoveCert, At, Goto
<1>19. CASE RemoveKey
  BY <1>19 DEF RemoveKey, At, Finish
<1>20. CASE EnsurePresent
  BY <1>20 DEF EnsurePresent, MayConnect
<1>21. CASE EnsureReads
  BY <1>21 DEF EnsureReads, MayConnect, key_is_wrapped_only, Unprotects
<1>22. CASE EnsureOpens
  BY <1>22 DEF EnsureOpens, Overlapping
<1>23. CASE EnsureWrites
  BY <1>23 DEF EnsureWrites, Overlapping
<1>24. CASE SpawnXray
  BY <1>24 DEF SpawnXray, Overlapping
<1>25. CASE ConnectBlocked
  BY <1>25 DEF ConnectBlocked, Overlapping
<1>26. CASE ConnectCut
  BY <1>26 DEF ConnectCut, Overlapping
<1>27. CASE UNCHANGED vars
  BY <1>27 DEF vars
<1> QED
  BY <1>1, <1>2, <1>3, <1>4, <1>5, <1>6, <1>7, <1>8, <1>9, <1>10, <1>11, <1>12, <1>13,
     <1>14, <1>15, <1>16, <1>17, <1>18, <1>19, <1>20, <1>21, <1>22, <1>23, <1>24,
     <1>25, <1>26, <1>27
  DEF Next, wrap_key_dpapi, unwrap_key_dpapi, generate, remove_local, connect_xray

\* No operation outside the named accidents moves the newest pair.
LEMMA NewestInPlaceStep ==
  ASSUME TypeOK, StepOfCommand, ConnectBeside, BuffersCurrent, NothingYet, WrittenFirst,
         NewestInPlace, [Next]_vars
  PROVE  NewestInPlace'
<1> USE KeyAssumption DEF files, helper, gui, history, TypeOK, StepOfCommand, ConnectBeside,
            BuffersCurrent, NothingYet, WrittenFirst, NewestInPlace, Intact, ConnectWrites,
            Wraps, Makers, Commands, exists, NoFile, Torn, Broken
<1>1. ASSUME NEW c \in Commands, NEW d \in BOOLEAN, Start(c, d)
      PROVE  NewestInPlace'
  BY <1>1 DEF Start, DialogAllows
<1>2. CASE Interrupted
  BY <1>2 DEF Interrupted, Finish
<1>3. CASE WrapReads
  BY <1>3 DEF WrapReads, At, Goto
<1>4. CASE WrapRefused
  BY <1>4 DEF WrapRefused, At, Finish
<1>5. CASE WrapOpens
  BY <1>5 DEF WrapOpens, At, Goto
<1>6. CASE WrapWrites
  BY <1>6 DEF WrapWrites, At, Goto, Finish
<1>7. CASE WrapUnlinks
  BY <1>7 DEF WrapUnlinks, At, Finish
<1>8. CASE UnwrapReads
  BY <1>8 DEF UnwrapReads, At, Goto, Unprotects
<1>9. CASE UnwrapRefused
  BY <1>9 DEF UnwrapRefused, At, Finish
<1>10. CASE UnwrapOpens
  BY <1>10 DEF UnwrapOpens, At, Goto
<1>11. CASE UnwrapWrites
  BY <1>11 DEF UnwrapWrites, At, Finish
<1>12. CASE BackupCert
  BY <1>12 DEF BackupCert, At, Goto
<1>13. CASE BackupKey
  BY <1>13 DEF BackupKey, At, Goto
<1>14. CASE GenerateSkipsBackup
  BY <1>14 DEF GenerateSkipsBackup, At, Goto
<1>15. CASE GenerateFails
  BY <1>15 DEF GenerateFails, At, Finish
<1>16. CASE XrayFirst
  BY <1>16 DEF XrayFirst, At, Goto
<1>17. CASE XraySecond
  BY <1>17 DEF XraySecond, At, Finish
<1>18. CASE RemoveCert
  BY <1>18 DEF RemoveCert, At, Goto
<1>19. CASE RemoveKey
  BY <1>19 DEF RemoveKey, At, Finish
<1>20. CASE EnsurePresent
  BY <1>20 DEF EnsurePresent, MayConnect
<1>21. CASE EnsureReads
  BY <1>21 DEF EnsureReads, MayConnect, key_is_wrapped_only, Unprotects
<1>22. CASE EnsureOpens
  BY <1>22 DEF EnsureOpens, Overlapping
<1>23. CASE EnsureWrites
  BY <1>23 DEF EnsureWrites, Overlapping
<1>24. CASE SpawnXray
  BY <1>24 DEF SpawnXray, Overlapping
<1>25. CASE ConnectBlocked
  BY <1>25 DEF ConnectBlocked, Overlapping
<1>26. CASE ConnectCut
  BY <1>26 DEF ConnectCut, Overlapping
<1>27. CASE UNCHANGED vars
  BY <1>27 DEF vars
<1> QED
  BY <1>1, <1>2, <1>3, <1>4, <1>5, <1>6, <1>7, <1>8, <1>9, <1>10, <1>11, <1>12, <1>13,
     <1>14, <1>15, <1>16, <1>17, <1>18, <1>19, <1>20, <1>21, <1>22, <1>23, <1>24,
     <1>25, <1>26, <1>27
  DEF Next, wrap_key_dpapi, unwrap_key_dpapi, generate, remove_local, connect_xray

\* A rotation overwrites the key only after it was put aside.
LEMMA RotationKeepsStep ==
  ASSUME TypeOK, StepOfCommand, ConnectBeside, RotationKeeps, [Next]_vars
  PROVE  RotationKeeps'
<1> USE DEF files, helper, gui, history, TypeOK, StepOfCommand, ConnectBeside,
            RotationKeeps, ConnectWrites, Wraps, Makers, Commands, exists, NoFile, Torn,
            Gens, Content
<1>1. ASSUME NEW c \in Commands, NEW d \in BOOLEAN, Start(c, d)
      PROVE  RotationKeeps'
  BY <1>1 DEF Start, DialogAllows
<1>2. CASE Interrupted
  BY <1>2 DEF Interrupted, Finish
<1>3. CASE WrapReads
  BY <1>3 DEF WrapReads, At, Goto
<1>4. CASE WrapRefused
  BY <1>4 DEF WrapRefused, At, Finish
<1>5. CASE WrapOpens
  BY <1>5 DEF WrapOpens, At, Goto
<1>6. CASE WrapWrites
  BY <1>6 DEF WrapWrites, At, Goto, Finish
<1>7. CASE WrapUnlinks
  BY <1>7 DEF WrapUnlinks, At, Finish
<1>8. CASE UnwrapReads
  BY <1>8 DEF UnwrapReads, At, Goto, Unprotects
<1>9. CASE UnwrapRefused
  BY <1>9 DEF UnwrapRefused, At, Finish
<1>10. CASE UnwrapOpens
  BY <1>10 DEF UnwrapOpens, At, Goto
<1>11. CASE UnwrapWrites
  BY <1>11 DEF UnwrapWrites, At, Finish
<1>12. CASE BackupCert
  BY <1>12 DEF BackupCert, At, Goto
<1>13. CASE BackupKey
  BY <1>13 DEF BackupKey, At, Goto
<1>14. CASE GenerateSkipsBackup
  BY <1>14 DEF GenerateSkipsBackup, At, Goto
<1>15. CASE GenerateFails
  BY <1>15 DEF GenerateFails, At, Finish
<1>16. CASE XrayFirst
  BY <1>16 DEF XrayFirst, At, Goto
<1>17. CASE XraySecond
  BY <1>17 DEF XraySecond, At, Finish
<1>18. CASE RemoveCert
  BY <1>18 DEF RemoveCert, At, Goto
<1>19. CASE RemoveKey
  BY <1>19 DEF RemoveKey, At, Finish
<1>20. CASE EnsurePresent
  BY <1>20 DEF EnsurePresent, MayConnect
<1>21. CASE EnsureReads
  BY <1>21 DEF EnsureReads, MayConnect, key_is_wrapped_only, Unprotects
<1>22. CASE EnsureOpens
  BY <1>22 DEF EnsureOpens, Overlapping
<1>23. CASE EnsureWrites
  BY <1>23 DEF EnsureWrites, Overlapping
<1>24. CASE SpawnXray
  BY <1>24 DEF SpawnXray, Overlapping
<1>25. CASE ConnectBlocked
  BY <1>25 DEF ConnectBlocked, Overlapping
<1>26. CASE ConnectCut
  BY <1>26 DEF ConnectCut, Overlapping
<1>27. CASE UNCHANGED vars
  BY <1>27 DEF vars
<1> QED
  BY <1>1, <1>2, <1>3, <1>4, <1>5, <1>6, <1>7, <1>8, <1>9, <1>10, <1>11, <1>12, <1>13,
     <1>14, <1>15, <1>16, <1>17, <1>18, <1>19, <1>20, <1>21, <1>22, <1>23, <1>24,
     <1>25, <1>26, <1>27
  DEF Next, wrap_key_dpapi, unwrap_key_dpapi, generate, remove_local, connect_xray

-----------------------------------------------------------------------------
(* The invariant and what follows from it                                  *)

\* A checkout without a CA satisfies the invariant.
LEMMA KeyInit == Init => KeyInv
<1>1. ASSUME Init PROVE TypeOK
  <2>1. {dialog, overlap, removed, cut, clobbered, discarded} \subseteq BOOLEAN
    BY <1>1, Zenon DEF Init
  <2>2. {cert, key, spawned, before, sidecar, buf, gbuf} \subseteq Content
    BY <1>1 DEF Init, Content, NoFile
  <2>3. backup \in [cert : Content, key : Content]
    BY <1>1 DEF Init, Content, NoBackup, NoFile
  <2>4. gens \in 0 .. MaxGens /\ ran \in 0 .. MaxCommands
    BY <1>1, KeyAssumption DEF Init
  <2> QED
    BY <1>1, <2>1, <2>2, <2>3, <2>4, Zenon DEF Init, TypeOK, Commands, Steps
<1> QED
  BY <1>1
  DEF Init, KeyInv, StepOfCommand, ConnectBeside, BuffersCurrent, NothingYet,
      NewestInPlace, Intact, WrittenFirst, RotationKeeps, ConnectWrites, Wraps, Makers,
      Gens, NoFile, exists

\* Whatever helper commands and connects do, and wherever they are killed, the
\* parts of KeyInv hold together.
THEOREM KeyInvariant == Spec => []KeyInv
<1>1. KeyInv /\ [Next]_vars => KeyInv'
  BY TypeStep, StepOfCommandStep, ConnectBesideStep, BuffersCurrentStep, NothingYetStep,
     WrittenFirstStep, NewestInPlaceStep, RotationKeepsStep
  DEF KeyInv
<1> QED
  BY <1>1, KeyInit, PTL DEF Spec

\* The files, buffers and histories keep their types; in particular nothing that
\* was not read is ever written over a sidecar or a key (wrap_key_dpapi,
\* unwrap_key_dpapi).
THEOREM TypeCorrect == Spec => []TypeOK
  BY KeyInvariant, PTL DEF KeyInv

\* The newest CA's key stays on disk through any number of wraps, unwraps,
\* rotations and connects, killed anywhere, but for the named accidents
\* (key_at_rest.py, mitm_trust.py).
THEOREM NewestKeySurvives == Spec => []KeySurvives
<1>1. KeyInv => KeySurvives
  BY DEF KeyInv, NewestInPlace, Intact, KeySurvives
<1> QED
  BY <1>1, KeyInvariant, PTL

\* A rotation killed at any file operation leaves the key it began with in the
\* key file or in the backup (backup_existing before xray tls cert).
THEOREM RotationUndoable == Spec => []RotateIsUndoable
<1>1. KeyInv => RotateIsUndoable
  BY DEF KeyInv, RotationKeeps, RotateIsUndoable
<1> QED
  BY <1>1, KeyInvariant, PTL

\* Between commands certificate and key are of one generation, but for the named
\* accidents (generate, unwrap_key_dpapi, connect_xray).
THEOREM PairStaysTogether == Spec => []PairAgrees
<1>1. KeyInv => PairAgrees
  BY KeyAssumption
  DEF KeyInv, StepOfCommand, NewestInPlace, NothingYet, Intact, PairAgrees, Gens, NoFile, exists,
      TypeOK
<1> QED
  BY <1>1, KeyInvariant, PTL

\* connect_xray starts Xray on a whole key, unless a helper ran meanwhile or one
\* of the named accidents happened (ensure_key_material_available).
THEOREM WholeKeyAtStart == Spec => StartsOnWholeKey
<1>1. KeyInv /\ [Next]_vars
        => [SpawnXray => key \in Gens \/ overlap' \/ cut \/ clobbered \/ discarded]_vars
  <2> SUFFICES ASSUME KeyInv, SpawnXray, ~overlap', ~cut, ~clobbered, ~discarded
               PROVE  key \in Gens
    OBVIOUS
  <2>1. ~overlap /\ cmd = "none" /\ connecting = "spawn"
    BY DEF SpawnXray, Overlapping, KeyInv, TypeOK
  <2>2. exists(key) /\ step = "start"
    BY <2>1 DEF KeyInv, ConnectBeside, StepOfCommand
  <2>3. gens > 0
    BY <2>2 DEF KeyInv, NothingYet, TypeOK, exists
  <2>4. key = gens
    BY <2>1, <2>2, <2>3 DEF KeyInv, NewestInPlace, Intact
  <2> QED
    BY <2>3, <2>4, KeyAssumption DEF KeyInv, TypeOK, Gens
<1> QED
  BY <1>1, KeyInvariant, PTL DEF Spec, StartsOnWholeKey

=============================================================================
