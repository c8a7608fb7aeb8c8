---------------------------- MODULE DaemonStartup ----------------------------
(***************************************************************************)
(* rtf_daemon_init and rtf_daemon_destroy of daemon/retif_daemon.c, with   *)
(* main, rtf_scheduler_init, rtf_plugins_init and the functions of         *)
(* retif_config.c that save, set and restore the kernel's parameters: how  *)
(* a daemon comes up, what it does to the system on the way, and what is   *)
(* left when it stops, fails to start or is killed, over any number of     *)
(* starts.                                                                 *)
(*                                                                         *)
(* The kernel's parameters are sched_rr_timeslice_ms (rr) and              *)
(* sched_rt_runtime_us (rt, in the unit in which the period is Full; -1 is *)
(* no limit).                                                              *)
(***************************************************************************)
EXTENDS Configuration

CONSTANTS Docs,     \* the contents the configuration file may have
          Params,   \* the kernel's parameters before the first start
          MaxStarts \* BOUND on starts

ASSUME StartupAssumption ==
  /\ MaxStarts \in Nat
  /\ Params \subseteq [rr : Int, rt : Int]
  /\ Docs \subseteq Document

VARIABLES
  phase,    \* how far the daemon is: "off", a step of rtf_daemon_init, or "up"
  file,     \* the configuration file, while it is parsed
  config,   \* data->config
  procfs,   \* the kernel's parameters
  backup,   \* data->proc_backup
  opened,   \* how many plugins rtf_plugins_init has opened
  sched,    \* whether rtf_scheduler_init ran to its end
  starts,   \* starts so far
  orig,     \* history: the kernel's parameters before the first start
  found,    \* history: the kernel's parameters when this daemon started
  mess      \* history: a daemon left without restoring what it changed

svars == <<phase, file, config, procfs, backup, opened, sched, starts, orig, found, mess>>

NoFile   == [yaml |-> FALSE]
NoBackup == [rr |-> 0, rt |-> 0]

StartupInit ==
  /\ phase = "off"
  /\ file = NoFile
  /\ config = Zeroed
  /\ procfs \in Params
  /\ backup = NoBackup
  /\ opened = 0
  /\ sched = FALSE
  /\ starts = 0
  /\ orig = procfs
  /\ found = procfs
  /\ mess = FALSE

-----------------------------------------------------------------------------
(***************************************************************************)
(* file_write_long: the value is written, or the file cannot be opened     *)
(* ("refused"), or the kernel rejects the value when the buffer is flushed *)
(* by fclose, which nobody looks at ("lost", reported as success).         *)
(***************************************************************************)
WriteOutcomes == {"written", "refused", "lost"}

Written(old, new, w) == IF w = "written" THEN new ELSE old

(***************************************************************************)
(* Two file_write_long in a row: the second is made if the first was not   *)
(* refused (set_rt_kernel_params, restore_rt_kernel_params).               *)
(***************************************************************************)
WriteBoth(rr, rt, w1, w2) ==
  [rr |-> Written(procfs.rr, rr, w1),
   rt |-> IF w1 = "refused" THEN procfs.rt ELSE Written(procfs.rt, rt, w2)]

(***************************************************************************)
(* file_read_long: 0, or -1 when the file cannot be opened, or 1 when it   *)
(* holds no number.                                                        *)
(***************************************************************************)
ReadResults == {0, -1, 1}

\* The result of `a | b` on two of them.
BitOr(a, b) == IF a = -1 \/ b = -1 THEN -1 ELSE IF a = 1 \/ b = 1 THEN 1 ELSE 0

\* The process is gone, with its memory.
Gone ==
  /\ phase' = "off"
  /\ file' = NoFile
  /\ config' = Zeroed
  /\ backup' = NoBackup
  /\ opened' = 0
  /\ sched' = FALSE
  /\ UNCHANGED <<starts, orig, found>>

\* ... and nothing is restored.
Leave ==
  /\ Gone
  /\ mess' = (mess \/ procfs # found)
  /\ UNCHANGED procfs

-----------------------------------------------------------------------------
(***************************************************************************)
(* main starts the daemon with zeroed data, and the configuration file is  *)
(* opened.  It is read at this time only: the administrator may edit it    *)
(* whenever he likes, so that each start finds any contents.               *)
(***************************************************************************)
Start(doc) ==
  /\ phase = "off"
  /\ starts < MaxStarts
  /\ starts' = starts + 1
  /\ found' = procfs
  /\ file' = doc
  /\ phase' = "parse"
  /\ UNCHANGED <<config, procfs, backup, opened, sched, orig, mess>>

\* The outcome of parse_configuration on every file.
Parsed == [doc \in Docs |-> parse_configuration(doc)]

\* Mutant: the result is only logged.
MutParse ==
  /\ phase = "parse"
  /\ config' = Parsed[file].conf
  /\ phase' = "save"
  /\ file' = NoFile
  /\ UNCHANGED <<procfs, backup, opened, sched, starts, orig, found, mess>>

(***************************************************************************)
(* parse_configuration, if it returns: on a file whose cores hold a range  *)
(* without end the daemon stays here until it is killed.                   *)
(***************************************************************************)
Parse ==
  /\ phase = "parse"
  /\ LET r == Parsed[file]
     IN  \/ /\ r.ret = 0
            /\ config' = r.conf
            /\ phase' = "save"
            /\ file' = NoFile
            /\ UNCHANGED <<procfs, backup, opened, sched, starts, orig, found, mess>>
         \/ r.ret \notin {0, Endless} /\ Leave

\* Mutant: the runtime is not saved.
MutSave(r1, r2) ==
  /\ phase = "save"
  /\ \/ /\ r1 = 0 /\ r2 = 0
        /\ backup' = [backup EXCEPT !.rr = procfs.rr]
        /\ phase' = "set"
        /\ UNCHANGED <<file, config, procfs, opened, sched, starts, orig, found, mess>>
     \/ /\ r1 # 0 \/ r2 # 0
        /\ Leave

(***************************************************************************)
(* save_rt_kernel_params; the daemon gives up when either read fails.      *)
(***************************************************************************)
Save(r1, r2) ==
  /\ phase = "save"
  /\ \/ /\ r1 = 0 /\ r2 = 0
        /\ backup' = procfs
        /\ phase' = "set"
        /\ UNCHANGED <<file, config, procfs, opened, sched, starts, orig, found, mess>>
     \/ /\ r1 # 0 \/ r2 # 0
        /\ Leave

(***************************************************************************)
(* set_rt_kernel_params; a failure is only logged.                         *)
(***************************************************************************)
Set(w1, w2) ==
  /\ phase = "set"
  /\ procfs' = WriteBoth(config.rr_timeslice, -1, w1, w2)
  /\ phase' = "bind"
  /\ UNCHANGED <<file, config, backup, opened, sched, starts, orig, found, mess>>

(***************************************************************************)
(* rtf_carrier_init: socket, bind and listen.                              *)
(***************************************************************************)
Bind(ok) ==
  /\ phase = "bind"
  /\ \/ /\ ok
        /\ phase' = "limits"
        /\ UNCHANGED <<file, config, procfs, backup, opened, sched, starts, orig, found, mess>>
     \/ ~ok /\ Leave

\* Mutant: a limit that is too low is let through.
MutTooLow == procfs.rt < 0 /\ procfs.rt < config.sched_max_util

TooLow == procfs.rt # -1 /\ procfs.rt < config.sched_max_util

(***************************************************************************)
(* The first half of rtf_scheduler_init.  rtf_daemon_init tests its result *)
(* with < 0: the 1 of an unreadable number passes for success, and the     *)
(* daemon goes on with a scheduler that was never initialised.             *)
(***************************************************************************)
Limits(r1, r2) ==
  /\ phase = "limits"
  /\ \/ /\ BitOr(r1, r2) = 0 /\ ~TooLow
        /\ phase' = "plugins"
        /\ UNCHANGED <<file, config, procfs, backup, opened, sched, starts, orig, found, mess>>
     \/ /\ BitOr(r1, r2) = 1
        /\ phase' = "up"
        /\ UNCHANGED <<file, config, procfs, backup, opened, sched, starts, orig, found, mess>>
     \/ /\ BitOr(r1, r2) = -1 \/ (BitOr(r1, r2) = 0 /\ TooLow)
        /\ Leave

(***************************************************************************)
(* find_and_open_plugin: an absolute path is tried as it is, another one   *)
(* next to the configuration file and then in the install directory.       *)
(* here and there say what open_plugin_dll meets in those places.          *)
(***************************************************************************)
Places == {"missing", "bad", "good"}

find_and_open_plugin(path, here, there) ==
  CASE path = "empty"    -> -1
    [] path = "absolute" -> IF here = "good" THEN 0 ELSE -1
    [] OTHER             -> IF here # "missing" THEN (IF here = "good" THEN 0 ELSE -1)
                            ELSE IF there = "good" THEN 0 ELSE -1

\* Mutant: a turn of the loop counts twice.
MutSkipPlugin(here, there) ==
  /\ phase = "plugins"
  /\ opened < Len(config.plugins)
  /\ LET r == find_and_open_plugin(config.plugins[opened + 1].path, here, there)
     IN  \/ /\ r = 0
            /\ opened' = opened + 2
            /\ UNCHANGED <<phase, file, config, procfs, backup, sched, starts, orig, found, mess>>
         \/ r # 0 /\ Leave

(***************************************************************************)
(* A turn of the loop of rtf_plugins_init, or its end.                     *)
(***************************************************************************)
OpenPlugin(here, there) ==
  /\ phase = "plugins"
  /\ opened < Len(config.plugins)
  /\ LET r == find_and_open_plugin(config.plugins[opened + 1].path, here, there)
     IN  \/ /\ r = 0
            /\ opened' = opened + 1
            /\ UNCHANGED <<phase, file, config, procfs, backup, sched, starts, orig, found, mess>>
         \/ r # 0 /\ Leave

PluginsOpened ==
  /\ phase = "plugins"
  /\ opened = Len(config.plugins)
  /\ sched' = TRUE
  /\ phase' = "up"
  /\ UNCHANGED <<file, config, procfs, backup, opened, starts, orig, found, mess>>

-----------------------------------------------------------------------------
\* Mutant: the two parameters are restored crosswise.
MutInterrupt(w1, w2) ==
  /\ phase = "up"
  /\ Gone
  /\ procfs' = WriteBoth(backup.rt, backup.rr, w1, w2)
  /\ mess' = (mess \/ w1 # "written" \/ w2 # "written")

(***************************************************************************)
(* SIGINT to a daemon that is up: rtf_daemon_destroy restores what was     *)
(* saved.  Nobody looks at its result.                                     *)
(***************************************************************************)
Interrupt(w1, w2) ==
  /\ phase = "up"
  /\ Gone
  /\ procfs' = WriteBoth(backup.rr, backup.rt, w1, w2)
  /\ mess' = (mess \/ w1 # "written" \/ w2 # "written")

(***************************************************************************)
(* SIGKILL or an invalid access at any time (the first create with an      *)
(* uninitialised scheduler is one), or SIGINT before main has installed    *)
(* its handler.  init.d/retif sends KILL a second after INT.               *)
(***************************************************************************)
Kill == phase # "off" /\ Leave

Coming ==
  \/ Parse
  \/ \E r1, r2 \in ReadResults : Save(r1, r2) \/ Limits(r1, r2)
  \/ \E w1, w2 \in WriteOutcomes : Set(w1, w2)
  \/ \E ok \in BOOLEAN : Bind(ok)
  \/ \E here, there \in Places : OpenPlugin(here, there)
  \/ PluginsOpened

StartupNext ==
  \/ \E doc \in Docs : Start(doc)
  \/ Coming
  \/ \E w1, w2 \in WriteOutcomes : Interrupt(w1, w2)
  \/ Kill

StartupSpec == StartupInit /\ [][StartupNext]_svars

-----------------------------------------------------------------------------
(***************************************************************************)
(* Properties.                                                             *)
(***************************************************************************)

Serving == phase = "up" /\ sched

(***************************************************************************)
(* StartupTypeOK: the phase is one of the steps of rtf_daemon_init, and    *)
(* the loop of rtf_plugins_init stays within the configured plugins.       *)
(***************************************************************************)
StartupTypeOK ==
  /\ phase \in {"off", "parse", "save", "set", "bind", "limits", "plugins", "up"}
  /\ procfs \in [rr : Int, rt : Int] /\ backup \in [rr : Int, rt : Int]
  /\ opened \in 0..Len(config.plugins)
  /\ sched \in BOOLEAN /\ mess \in BOOLEAN
  /\ starts \in 0..MaxStarts

(***************************************************************************)
(* ReadAsWritten: a file written as the comments of conf/retifconf.yaml    *)
(* ask, whose cores and priorities fit an int, is accepted exactly when it *)
(* obeys their rules, and then the daemon has the configuration the file   *)
(* describes: the tokenisers, the ranges, the two-cursor search for a      *)
(* common core and the checks together do what the comments say.           *)
(***************************************************************************)
ReadAsWritten ==
  phase = "parse" /\ WellWritten(file) =>
    IF Acceptable(Meaning(file))
    THEN Parsed[file] = [ret |-> 0, conf |-> Meaning(file)]
    ELSE Parsed[file].ret # 0

(***************************************************************************)
(* SchedulerGetsValid: whatever the file, damaged, wrongly typed or with   *)
(* numbers that no int holds, a daemon that serves obeys the rules of      *)
(* conf/retifconf.yaml: cores that exist, windows that are not inverted,   *)
(* distinct names, and windows that do not overlap for any two plugins     *)
(* that share a core, as long as the lists of cores came out ascending.    *)
(* It does not say that a plugin has a core: after an error in a list      *)
(* parse_conf_plugins_item_cores returns 0 and the list may be empty.      *)
(***************************************************************************)
SchedulerGetsValid ==
  Serving /\ (\A i \in 1..Len(config.plugins) : Strictly(config.plugins[i].cores))
    => Acceptable(config)

(***************************************************************************)
(* LimitHonoured: when a daemon serves, the kernel lets real-time tasks    *)
(* use what sched_max_util promises, even when set_rt_kernel_params failed *)
(* half way or its write was lost.                                         *)
(***************************************************************************)
LimitHonoured == Serving => procfs.rt = -1 \/ procfs.rt >= config.sched_max_util

(***************************************************************************)
(* NothingLost: while a daemon runs, either the kernel's parameters are    *)
(* still those it found or it holds those it found: they are never         *)
(* overwritten before they are saved.                                      *)
(***************************************************************************)
NothingLost == phase # "off" => procfs = found \/ backup = found

(***************************************************************************)
(* NoDrift: over any number of starts, edits and stops the kernel is left  *)
(* with the parameters it had before the first start, unless a daemon was  *)
(* killed, failed to start after it had changed them, or could not write   *)
(* them back.                                                              *)
(***************************************************************************)
NoDrift == phase = "off" /\ ~mess => procfs = orig

==============================================================================
