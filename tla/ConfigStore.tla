---------------------------- MODULE ConfigStore ----------------------------
(***************************************************************************)
(* cadgenesis.platform.config.ConfigStore: files that are merged in order, *)
(* an overlay from the environment, and listeners.  The store decides that *)
(* something changed by the digest of each file, which it keeps before it  *)
(* parses the file.  Layers and the environment change at any time, between *)
(* two reads of one reload() too.                                          *)
(***************************************************************************)
EXTENDS Integers, Sequences

CONSTANTS
  Sources,     \* the sequence of the files
  Settings,    \* what a file may say; what cannot be parsed is Garbage
  Garbage, Absent,
  EnvSettings, \* what the environment may say; Absent for no variable
  MaxEdits     \* bound: changes of files and environment

ASSUME ConfigAssumption ==
  /\ Len(Sources) \in Nat /\ DOMAIN Sources = 1 .. Len(Sources)
  /\ Garbage \notin Settings /\ Absent \notin Settings

VARIABLES
  file,        \* what each file says, or Garbage, or Absent for a missing file
  environ,
  data,        \* what each layer contributed to the merged configuration
  digests,     \* the content of each file when it was last hashed
  reading,     \* 0, or the number of the file that reload() reads next
  combined,    \* the layers read so far by this reload()
  changed,
  told,        \* the data the listeners last received
  edits,
  excused      \* ghost: a reload raised or the overlay went since the last call of a listener

configVars == <<file, environ, data, digests, reading, combined, changed, told, edits, excused>>

Layers == DOMAIN Sources
NoLayers == [f \in Layers |-> Absent]
Merged(layers, env) == [layers |-> layers, env |-> env]

\* The constructor reloads, and raises unless every file can be read.
ConfigInit ==
  /\ file \in [Layers -> Settings] /\ environ \in EnvSettings
  /\ digests = file /\ data = Merged(file, environ) /\ told = data
  /\ reading = 0 /\ combined = NoLayers /\ changed = FALSE
  /\ edits = 0 /\ excused = FALSE

EditFile(f, content) ==
  /\ edits < MaxEdits /\ file[f] # content
  /\ file' = [file EXCEPT ![f] = content] /\ edits' = edits + 1
  /\ UNCHANGED <<environ, data, digests, reading, combined, changed, told, excused>>

EditEnvironment(e) ==
  /\ edits < MaxEdits /\ environ # e
  /\ environ' = e /\ edits' = edits + 1
  /\ UNCHANGED <<file, data, digests, reading, combined, changed, told, excused>>

BeginReload ==
  /\ reading = 0
  /\ reading' = 1 /\ combined' = NoLayers /\ changed' = FALSE
  /\ UNCHANGED <<file, environ, data, digests, told, edits, excused>>

ReloadRaises == /\ reading' = 0 /\ excused' = TRUE /\ UNCHANGED <<data, told>>

\* Mutant of ReadMissing: a file that is not there contributes nothing.
ReadMissingSkips ==
  /\ reading \in Layers /\ file[reading] = Absent
  /\ reading' = reading + 1
  /\ UNCHANGED <<file, environ, data, digests, combined, changed, told, edits, excused>>

ReadMissing ==
  /\ reading \in Layers /\ file[reading] = Absent
  /\ ReloadRaises
  /\ UNCHANGED <<file, environ, digests, combined, changed, edits>>

\* The digest is kept, and then the file turns out to be garbage.
Hashed ==
  /\ digests' = [digests EXCEPT ![reading] = file[reading]]
  /\ changed' = (changed \/ digests[reading] # file[reading])

ReadGarbage ==
  /\ reading \in Layers /\ file[reading] = Garbage
  /\ Hashed /\ ReloadRaises
  /\ UNCHANGED <<file, environ, combined, edits>>

\* Mutant of ReadFile: the digest is kept, and what it says of the file is not.
ReadFileUnnoticed ==
  /\ reading \in Layers /\ file[reading] \in Settings
  /\ digests' = [digests EXCEPT ![reading] = file[reading]]
  /\ combined' = [combined EXCEPT ![reading] = file[reading]]
  /\ reading' = reading + 1
  /\ UNCHANGED <<file, environ, data, changed, told, edits, excused>>

ReadFile ==
  /\ reading \in Layers /\ file[reading] \in Settings
  /\ Hashed
  /\ combined' = [combined EXCEPT ![reading] = file[reading]]
  /\ reading' = reading + 1
  /\ UNCHANGED <<file, environ, data, told, edits, excused>>

\* A variable in the environment counts as a change each time.  What a listener raises is
\* logged.
EndReload ==
  /\ reading > Len(Sources)
  /\ reading' = 0
  /\ data' = Merged(combined, environ)
  /\ IF changed \/ environ # Absent
     THEN told' = data' /\ excused' = FALSE
     ELSE UNCHANGED told /\ excused' = (excused \/ (data.env # Absent /\ environ = Absent))
  /\ UNCHANGED <<file, environ, digests, combined, changed, edits>>

ConfigNext ==
  \/ \E f \in Layers, s \in Settings \cup {Garbage, Absent} : EditFile(f, s)
  \/ \E e \in EnvSettings : EditEnvironment(e)
  \/ BeginReload \/ ReadMissing \/ ReadGarbage \/ ReadFile \/ EndReload

ConfigSpec == ConfigInit /\ [][ConfigNext]_configVars

-----------------------------------------------------------------------------
(* Properties                                                              *)

ConfigTypeOK ==
  /\ file \in [Layers -> Settings \cup {Garbage, Absent}] /\ environ \in EnvSettings
  /\ digests \in [Layers -> Settings \cup {Garbage}]
  /\ data.layers \in [Layers -> Settings] /\ data.env \in EnvSettings
  /\ reading \in 0 .. Len(Sources) + 1

\* The listeners know the configuration in force, unless a reload raised or the last
\* variable left the environment since they were last called: a digest that was kept
\* before the failure hides the change from the next reload.
ListenersKnow == ~excused => told = data
=============================================================================
