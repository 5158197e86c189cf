---------------------------- MODULE ConfigStore ----------------------------
(***************************************************************************)
(* The stored configuration of config/config.c: one file with a header and *)
(* an entry for each module that is stored and whose configuration is      *)
(* valid.  WEMAIN loads it once per run, before any other task exists;     *)
(* commands change a configuration and save them all, on cmdTask.  So only *)
(* one task is ever in this code, and what it has to survive is a reset    *)
(* between any two calls and a call that fails.                            *)
(*                                                                         *)
(* An entry is a name and a size, then the configuration; a file that ends *)
(* within the first part reads like one that ends before it, so a torn     *)
(* entry is one whose configuration is cut short.                          *)
(* A definition named D_x is D with a slip a programmer could make; it is  *)
(* no part of the model.                                                   *)
(***************************************************************************)
EXTENDS Naturals, Sequences, FiniteSets

CONSTANTS
  NumModules,  \* modules that are stored, in the order of g_modules
  RamOnly,     \* those whose SET command does not save: TCP, GPS
  Retries,     \* MAX_LOAD_RETRIES
  Faults,      \* the file operations that may fail
  MaxSets,     \* bound: SET commands
  MaxBoots     \* bound: restarts

Modules == 1..NumModules

ASSUME ModuleAssumption == NumModules \in Nat \ {0} /\ RamOnly \subseteq Modules
ASSUME RetryAssumption == Retries \in Nat \ {0}
ASSUME OperationAssumption == Faults \subseteq {"open", "read", "seek", "write", "close", "delete"}
ASSUME BoundAssumption == MaxSets \in Nat /\ MaxBoots \in Nat

VARIABLES
  ram,       \* the configurations in force
  file,      \* C:/config
  pc,        \* in config_load_from_file, in config_save_to_file, or "up"
  idx,       \* entry of the file or module of the loop
  tries,     \* reads of the header
  stale,     \* the handle was closed by the retry (config.c:186)
  lost,      \* the position in the file is not that of an entry
  \* history
  fresh,     \* no command since the load
  calm,      \* no call has failed in this run
  promise,   \* what the last save that was reported as done has stored
  sets, boots

loadVars == <<idx, tries, stale, lost>>
ghostVars == <<fresh, calm, promise, sets, boots>>
configVars == <<ram, file, pc, loadVars, ghostVars>>

\* A configuration: the default, the one of a SET command, or what a short
\* read leaves, the start of one followed by the default: valid or not.
Default == 0
Mixed == MaxSets + 1
Broken == MaxSets + 2
Config == 0..Broken

Defaults == [m \in Modules |-> Default]
Valid == {m \in Modules : ram[m] # Broken}

\* kind: no file, one without a whole header, of another program, of another
\* CONFIG_FILE_VERSION, or a header that announces count entries.  tail: the
\* module of the torn entry, 0 for none.
File(kind, count, entries, tail) ==
  [kind |-> kind, count |-> count, entries |-> entries, tail |-> tail]
NoFile == File("none", 0, <<>>, 0)
Entry(m, v) == [module |-> m, value |-> v]

\* 0 stands for a module this firmware does not store.
AllDefault(first) == first \o [m \in Modules |-> Entry(m, Default)]
FirstFiles ==
  {NoFile, File("alien", 0, <<>>, 0), File("old", 0, <<>>, 0)}
    \cup {File("ok", Len(s), s, 0) : s \in {AllDefault(<<>>), AllDefault(<<Entry(0, Default)>>)}}

Fault(f) == f \in Faults /\ calm' = FALSE /\ promise' = [promise EXCEPT !.valid = FALSE]
NoFault == UNCHANGED <<calm, promise>>

\* The start of config_save_to_file.
BeginSave == pc' = IF Valid = {} THEN "up" ELSE "open_w"

-----------------------------------------------------------------------------
(* config_load_from_file *)

\* A file that cannot be opened is taken for one that is not there.
OpenFile ==
  /\ pc = "open" /\ tries' = 1
  /\ \/ file.kind # "none" /\ pc' = "header" /\ NoFault
     \/ file.kind = "none" /\ BeginSave /\ NoFault
     \/ file.kind # "none" /\ BeginSave /\ Fault("open")
  /\ UNCHANGED <<ram, file, idx, stale, lost, fresh, sets, boots>>

ReadHeader ==
  /\ pc = "header" /\ idx' = 1
  /\ \/ file.kind = "alien" /\ pc' = "up" /\ UNCHANGED file /\ NoFault
     \/ file.kind = "old" /\ BeginSave /\ file' = NoFile /\ NoFault
     \/ file.kind = "old" /\ BeginSave /\ UNCHANGED file /\ Fault("delete")
     \/ file.kind = "ok" /\ pc' = "entry" /\ UNCHANGED file /\ NoFault
  /\ UNCHANGED <<ram, tries, stale, lost, fresh, sets, boots>>

HeaderFails_Again ==
  /\ pc = "header" /\ IF file.kind = "short" THEN NoFault ELSE Fault("read")
  /\ tries' = tries + 1 /\ stale' = TRUE
  /\ UNCHANGED <<ram, file, pc, idx, lost, fresh, sets, boots>>

\* The header is read again from the file opened again; the caller goes on
\* with the handle that was closed.
HeaderFails ==
  /\ pc = "header"
  /\ IF file.kind = "short" THEN NoFault ELSE Fault("read")
  /\ IF tries < Retries
       THEN tries' = tries + 1 /\ stale' = TRUE /\ UNCHANGED pc
       ELSE pc' = "up" /\ UNCHANGED <<tries, stale>>
  /\ UNCHANGED <<ram, file, idx, lost, fresh, sets, boots>>

ReopenFails ==
  /\ pc = "header" /\ tries < Retries
  /\ file.kind = "short" \/ "read" \in Faults
  /\ Fault("open") /\ pc' = "up"
  /\ UNCHANGED <<ram, file, loadVars, fresh, sets, boots>>

Announced_BeforeLast == idx < file.count
Announced == idx <= file.count
Whole == idx <= Len(file.entries)
Torn == file.tail # 0 /\ idx = Len(file.entries) + 1
Module == IF Whole THEN file.entries[idx].module ELSE file.tail

\* read_config_entry and find_module_by_name.  A closed handle may still
\* work; a read at a wrong position finds no module and skips at random.
ReadEntry ==
  /\ pc = "entry" /\ Announced /\ (Whole \/ Torn)
  /\ IF lost \/ Module = 0
       THEN idx' = idx + 1 /\ UNCHANGED pc
       ELSE pc' = "payload" /\ UNCHANGED idx
  /\ UNCHANGED <<ram, file, tries, stale, lost, ghostVars>>

\* The configuration of a module not stored is skipped; whether the seek did
\* is not looked at.
SkipFails ==
  /\ pc = "entry" /\ Announced /\ (Whole \/ Torn) /\ ~lost /\ Module = 0
  /\ Fault("seek") /\ lost' = TRUE /\ idx' = idx + 1
  /\ UNCHANGED <<ram, file, pc, tries, stale, fresh, sets, boots>>

\* A file that ends too early is written again.
EntryFails ==
  /\ pc = "entry" /\ Announced
  /\ IF ~(Whole \/ Torn) \/ lost \/ stale THEN NoFault ELSE Fault("read")
  /\ BeginSave
  /\ UNCHANGED <<ram, file, loadVars, fresh, sets, boots>>

LoadEnds ==
  /\ pc = "entry" /\ ~Announced
  /\ pc' = "up"
  /\ UNCHANGED <<ram, file, loadVars, ghostVars>>

\* load_module_config
LoadModule ==
  /\ pc = "payload" /\ Whole
  /\ ram' = [ram EXCEPT ![Module] = file.entries[idx].value]
  /\ pc' = "entry" /\ idx' = idx + 1
  /\ UNCHANGED <<file, tries, stale, lost, ghostVars>>

\* A short read is not followed by the defaults again, nor validated.
LoadModuleFails ==
  /\ pc = "payload"
  /\ IF Torn \/ stale THEN NoFault ELSE Fault("read")
  /\ \E v \in {Default, Mixed, Broken} : ram' = [ram EXCEPT ![Module] = v]
  /\ lost' = TRUE
  /\ pc' = "entry" /\ idx' = idx + 1
  /\ UNCHANGED <<file, tries, stale, fresh, sets, boots>>

-----------------------------------------------------------------------------
(* config_save_to_file *)

SaveFails(f) == f \in Faults /\ pc' = "up" /\ calm' = FALSE /\ UNCHANGED promise

\* "wb": the file is empty from here on.
OpenForWrite ==
  /\ pc = "open_w"
  /\ \/ /\ file' = File("short", 0, <<>>, 0) /\ pc' = "head_w"
        /\ promise' = [promise EXCEPT !.valid = FALSE] /\ UNCHANGED calm
     \/ SaveFails("open") /\ UNCHANGED file
  /\ UNCHANGED <<ram, loadVars, fresh, sets, boots>>

WriteHeader_NotRamOnly ==
  /\ pc = "head_w" /\ idx' = 1
  /\ \/ file' = File("ok", Cardinality(Valid \ RamOnly), <<>>, 0) /\ pc' = "name_w" /\ NoFault
     \/ SaveFails("write") /\ UNCHANGED file
  /\ UNCHANGED <<ram, tries, stale, lost, fresh, sets, boots>>

\* The entries that will follow are counted before the first is written.
WriteHeader ==
  /\ pc = "head_w" /\ idx' = 1
  /\ \/ file' = File("ok", Cardinality(Valid), <<>>, 0) /\ pc' = "name_w" /\ NoFault
     \/ SaveFails("write") /\ UNCHANGED file
  /\ UNCHANGED <<ram, tries, stale, lost, fresh, sets, boots>>

\* write_module_entry: the name and the size, ...
WriteName ==
  /\ pc = "name_w" /\ idx \in Modules
  /\ \/ ram[idx] # Broken /\ file' = [file EXCEPT !.tail = idx] /\ pc' = "data_w"
        /\ UNCHANGED idx /\ NoFault
     \/ ram[idx] = Broken /\ idx' = idx + 1 /\ UNCHANGED <<file, pc>> /\ NoFault
     \/ ram[idx] # Broken /\ SaveFails("write") /\ UNCHANGED <<file, idx>>
  /\ UNCHANGED <<ram, tries, stale, lost, fresh, sets, boots>>

\* ... and the configuration.
WriteData ==
  /\ pc = "data_w"
  /\ \/ /\ file' = [file EXCEPT !.entries = Append(@, Entry(idx, ram[idx])), !.tail = 0]
        /\ idx' = idx + 1 /\ pc' = "name_w" /\ NoFault
     \/ SaveFails("write") /\ UNCHANGED <<file, idx>>
  /\ UNCHANGED <<ram, tries, stale, lost, fresh, sets, boots>>

SaveDone ==
  /\ pc = "name_w" /\ idx > NumModules /\ pc' = "up"
  /\ promise' = [valid |-> TRUE,
                 value |-> [m \in Modules |-> IF m \in Valid THEN ram[m] ELSE Default]]
  /\ UNCHANGED <<ram, file, loadVars, fresh, calm, sets, boots>>

\* Nor is the result of the last sync and close: the save is reported as done,
\* with a file that may end anywhere.
CloseFails ==
  /\ pc = "name_w" /\ idx > NumModules /\ pc' = "up" /\ Fault("close")
  /\ \/ file' = File("short", 0, <<>>, 0)
     \/ \E k \in 0..Len(file.entries), torn \in 0..NumModules :
          /\ torn = 0 \/ (k < Len(file.entries) /\ torn = file.entries[k + 1].module)
          /\ file' = File("ok", file.count, SubSeq(file.entries, 1, k), torn)
  /\ UNCHANGED <<ram, loadVars, fresh, sets, boots>>

-----------------------------------------------------------------------------
(* Commands, on cmdTask, and the end of a run *)

\* A command that is refused changes nothing.
SetConfig(m) ==
  /\ pc = "up" /\ sets < MaxSets
  /\ sets' = sets + 1 /\ ram' = [ram EXCEPT ![m] = sets + 1]
  /\ IF m \in RamOnly THEN UNCHANGED pc ELSE pc' = "open_w"
  /\ fresh' = FALSE
  /\ UNCHANGED <<file, loadVars, calm, promise, boots>>

\* FACTORY-RESET deletes the file and asks for a reset; DELETE-FOLDER config
\* does not ask.
FactoryReset ==
  /\ pc = "up" /\ file.kind # "none"
  /\ file' = NoFile /\ promise' = [promise EXCEPT !.valid = FALSE]
  /\ fresh' = FALSE
  /\ UNCHANGED <<ram, pc, loadVars, calm, sets, boots>>

\* A reset, planned or not, or a power loss, at any point.
Restart ==
  /\ boots < MaxBoots /\ boots' = boots + 1
  /\ ram' = Defaults /\ pc' = "open"
  /\ idx' = 1 /\ tries' = 1 /\ stale' = FALSE /\ lost' = FALSE
  /\ fresh' = TRUE /\ calm' = TRUE
  /\ UNCHANGED <<file, promise, sets>>

ConfigInit ==
  /\ ram = Defaults /\ pc = "open" /\ file \in FirstFiles
  /\ idx = 1 /\ tries = 1 /\ stale = FALSE /\ lost = FALSE
  /\ fresh = TRUE /\ calm = TRUE /\ sets = 0 /\ boots = 0
  /\ promise = [valid |-> FALSE, value |-> Defaults]

Load ==
  \/ OpenFile \/ ReadHeader \/ HeaderFails \/ ReopenFails
  \/ ReadEntry \/ SkipFails \/ EntryFails \/ LoadEnds \/ LoadModule \/ LoadModuleFails
Save == OpenForWrite \/ WriteHeader \/ WriteName \/ WriteData \/ SaveDone \/ CloseFails

ConfigNext ==
  \/ Load \/ Save
  \/ \E m \in Modules : SetConfig(m)
  \/ FactoryReset \/ Restart

ConfigSpec == ConfigInit /\ [][ConfigNext]_configVars

-----------------------------------------------------------------------------
(* Properties *)

\* Types and ranges of the state.
ConfigTypeOK ==
  /\ ram \in [Modules -> Config]
  /\ file \in [kind : {"none", "short", "alien", "old", "ok"}, count : 0..(NumModules + 1),
               entries : Seq([module : 0..NumModules, value : 0..Mixed]), tail : 0..NumModules]
  /\ pc \in {"open", "header", "entry", "payload", "up", "open_w", "head_w", "name_w", "data_w"}
  /\ idx \in 1..(NumModules + 2) /\ tries \in 1..Retries
  /\ stale \in BOOLEAN /\ lost \in BOOLEAN /\ fresh \in BOOLEAN /\ calm \in BOOLEAN
  /\ promise \in [valid : BOOLEAN, value : [Modules -> 0..Mixed]]
  /\ sets \in 0..MaxSets /\ boots \in 0..MaxBoots

\* config_save_to_file: what a save that succeeded has stored is in force
\* after any number of boots, until a later save is begun (even if it fails to
\* open the file it is kept), the file is wiped, or a call that reads it or
\* that ends the save fails.  A configuration that is not valid is left out.
ReportedIsKept ==
  pc = "up" /\ fresh /\ promise.valid =>
    \A m \in Modules : ram[m] # Broken => ram[m] = promise.value[m]

\* What a boot without a failing call would load.
Stored(m) ==
  LET own == {i \in DOMAIN file.entries : file.entries[i].module = m}
  IN  IF file.kind # "ok" \/ own = {} THEN Default
      ELSE file.entries[CHOOSE i \in own : TRUE].value

\* config.c:555-566: a boot without a failing call leaves a file from which
\* the next loads the same configurations, wherever an earlier save was cut:
\* the repair of a torn file loses nothing that was in force.  Not so for a
\* configuration whose own entry is torn.
StableBoots ==
  pc = "up" /\ fresh /\ calm =>
    \A m \in Modules : m # file.tail /\ ram[m] # Broken => ram[m] = Stored(m)
=============================================================================
