---------------------------- MODULE CommandLine ----------------------------
(***************************************************************************)
(* The commands of __main__.py, run in several terminals over the same     *)
(* files.  A command reads what it needs, shows it, and ends, or goes on   *)
(* to write when it was confirmed.  Most writes compare the file with what *)
(* was read and refuse when it changed (user.ini: EditSession; ownership:  *)
(* its revision; game files: fingerprints); `channel preview` and `channel *)
(* apply` read in two steps, and the write is a third.                     *)
(*                                                                         *)
(* Contents are small numbers that tell versions apart.  A rendered text   *)
(* and an override are records of the versions they are made of.  How each *)
(* store is replaced, locked and recovered is in UserEdits, OwnershipStore,*)
(* ApplyTransaction, DataLocation and SettingsRestore; here a replacement  *)
(* is one step.  Commands that only print are left out.                    *)
(***************************************************************************)
EXTENDS Naturals, FiniteSets

CONSTANTS Terminals, None,
          Runs(_),          \* the commands a terminal may run
          MaxCommands(_),   \* bound: how many it starts
          MaxOutside        \* bound: steps of other programs

VARIABLES files,        \* every file by name
          run,          \* the command of each terminal
          promised,     \* plans `channel preview` saved for --expect-plan
          commands,     \* how many a terminal has started
          outside       \* steps of other programs so far

vars == << files, run, promised, commands, outside >>

\* A rendered text, by the versions it is made of; a text of the override, by
\* the build it was made from and the values put into it; a plan that replaces
\* one override by a text.
Versions  == 0 .. 1
Layers    == Versions \union {None}
Renders   == [build : 0 .. 2, owned : Nat \union {None}, pack : Layers, user : Layers]
Values    == [rendered : Renders, user : Layers]
Texts     == [build : 0 .. 2, values : Values \union {None}]
Overrides == [text : Texts, at : Nat] \union {None}
Plans     == [before : Overrides, desired : Texts]

\* "No file" and "no plan" are none of these.
CommandAssumption ==
  /\ None \notin Texts
  /\ None \notin [text : Texts, at : Nat]
  /\ None \notin Plans

Idle(code) == [name |-> None, confirm |-> FALSE, flags |-> {}, step |-> "idle",
               seen |-> << >>, text |-> << >>, plan |-> None, failed |-> code # "ok"]

\* The names of commands, their words joined by hyphens, with the flags that
\* change what they do.
Flags(name) ==
  CASE name = "import" -> {"contracts"}
    [] name = "render" -> {"channel"}
    [] name = "channel-preview" -> {"no-user-edits"}
    [] name = "channel-apply" -> {"no-user-edits", "expect-plan"}
    [] name \in {"apply", "restore"} -> {"allow-game-folder"}
    [] name = "settings-import" -> {"replace-existing"}
    [] name \in {"delta-pack-export", "blueprints-export", "settings-export",
                 "diagnostics-export"} -> {"overwrite"}
    [] OTHER -> {}

\* Commands without --confirm: they write the file they are told to.
Unasked == {"import", "render", "scmdb", "stock", "channel-preview"}

\* What a command reads before it decides.
Inputs(name) ==
  CASE name \in {"import", "stock", "diagnostics-export"} -> {"archive"}
    [] name = "scmdb" -> {"cache"}
    [] name = "render" -> {"cache", "owned", "pack", "user"}
    [] name \in {"user-set", "user-import", "user-undo", "delta-pack-import",
                 "delta-pack-export"} -> {"user"}
    [] name \in {"blueprints-mark", "blueprints-scan", "blueprints-export"} -> {"owned"}
    [] name \in {"settings-import", "settings-export"} -> {"settings"}
    [] name = "languages-restore-stock" -> {"override"}
    [] name = "languages-activate" -> {"cfg"}
    [] name = "apply" -> {"rendered"}
    [] OTHER -> {}

-----------------------------------------------------------------------------
(* The steps commands are made of.                                         *)

Doing(t, name) == run[t].name = name /\ run[t].step = "shown"

Ends(t, code) ==
  /\ run' = [run EXCEPT ![t] = Idle(code)]
  /\ UNCHANGED << promised, commands, outside >>

Leaves(t, code) == Ends(t, code) /\ UNCHANGED files

Writes(t, file, value) == Ends(t, "ok") /\ files' = [files EXCEPT ![file] = value]

\* A write that refuses when the file is not the one that was read.
Replaces(t, file, value) ==
  IF files[file] = run[t].seen[file] THEN Writes(t, file, value) ELSE Leaves(t, "error")

Confirmed(t) == run[t].confirm
Other(version) == 1 - version

Start(t) ==
  /\ run[t].name = None
  /\ commands[t] < MaxCommands(t)
  /\ \E name \in Runs(t), confirm \in BOOLEAN : \E flags \in SUBSET Flags(name) :
       /\ confirm => name \notin Unasked
       /\ run' = [run EXCEPT ![t] = [Idle("ok") EXCEPT
                   !.name = name, !.confirm = confirm, !.flags = flags,
                   !.step = IF name \in {"channel-preview", "channel-apply"} THEN "read" ELSE "shown",
                   !.seen = [f \in Inputs(name) |-> files[f]]]]
  /\ commands' = [commands EXCEPT ![t] = @ + 1]
  /\ UNCHANGED << files, promised, outside >>

-----------------------------------------------------------------------------
(* Reading the game, and rendering.                                        *)

\* cmd_import; a community list belongs to no channel.
Import(t) ==
  /\ Doing(t, "import")
  /\ Writes(t, "cache", IF "contracts" \in run[t].flags THEN [build |-> 0, scoped |-> FALSE]
                        ELSE [build |-> run[t].seen.archive, scoped |-> TRUE])

\* cmd_scmdb; the cache it writes names no channel any more.
Scmdb(t) ==
  /\ Doing(t, "scmdb")
  /\ \/ Leaves(t, "ok")  \* --compare
     \/ IF run[t].seen.cache = None THEN Leaves(t, "error")
        ELSE Writes(t, "cache", [run[t].seen.cache EXCEPT !.scoped = FALSE])

\* cmd_render; without a channel there are no personal layers.  What is valid
\* is written although the exit code says that some text was not.
Render(t) ==
  /\ Doing(t, "render")
  /\ LET seen == run[t].seen
         scoped == "channel" \in run[t].flags \/ seen.cache.scoped
         Layer(version) == IF scoped THEN version ELSE None
     IN  IF seen.cache = None THEN Leaves(t, "error")
         ELSE \/ Leaves(t, "invalid")  \* the profile does not fit
              \/ \E code \in {"ok", "invalid"} :
                   /\ Ends(t, code)
                   /\ files' = [files EXCEPT !.rendered =
                        [build |-> seen.cache.build, owned |-> Layer(seen.owned),
                         pack |-> Layer(seen.pack), user |-> Layer(seen.user)]]

\* cmd_stock
Stock(t) == Doing(t, "stock") /\ Writes(t, "out", << "stock", run[t].seen.archive >>)

-----------------------------------------------------------------------------
(* The game's override.  Each write of it has a time of its own, which a   *)
(* fingerprint compares too.                                               *)

Written(f, text, backup) ==
  [f EXCEPT !.override = IF text = None THEN None ELSE [text |-> text, at |-> f.writes + 1],
            !.backup = IF backup = None THEN @ ELSE backup,
            !.writes = @ + 1]

TextOf(override) == IF override = None THEN None ELSE override.text

\* TransactionJournal.inspect
RecoveryStatus(f) ==
  CASE f.journal = None -> "clean"
    [] f.journal # None /\ f.override = f.journal.before -> "not-applied"
    [] f.journal # None /\ f.override # f.journal.before
         /\ TextOf(f.override) = f.journal.after -> "applied"
    [] OTHER -> "attention"

NeedsAttention(f) == RecoveryStatus(f) = "attention"

Inspected(f, resolveSafe) ==
  IF resolveSafe /\ ~NeedsAttention(f) THEN [f EXCEPT !.journal = None] ELSE f

\* _prepare_channel: the texts are read first, ...
PrepareText(t) ==
  /\ run[t].step = "read"
  /\ IF files.rendered = None THEN Leaves(t, "error")
     ELSE /\ run' = [run EXCEPT ![t].step = "prepare",
                       ![t].text = [rendered |-> files.rendered,
                         user |-> IF "no-user-edits" \in run[t].flags THEN files.rendered.user
                                  ELSE files.user]]
          /\ UNCHANGED << files, promised, commands, outside >>

\* ... then the baseline; the override must stay as it is meanwhile.  An
\* existing override is merged into, and keeps the build it was made from.
PreparePlan(t) ==
  /\ run[t].step = "prepare"
  /\ LET before == files.override
         text == [build |-> IF before = None THEN files.archive ELSE before.text.build,
                  values |-> run[t].text]
         plan == [before |-> before, desired |-> text]
     IN  run' = [run EXCEPT ![t].step = "shown", ![t].text = << >>, ![t].plan = plan]
  /\ UNCHANGED << files, promised, commands, outside >>

\* cmd_channel_preview, with --plan-out
ChannelPreview(t) ==
  /\ Doing(t, "channel-preview")
  /\ run' = [run EXCEPT ![t] = Idle(IF NeedsAttention(files) THEN "invalid" ELSE "ok")]
  /\ files' = [files EXCEPT !.plan = run[t].plan]
  /\ promised' = promised \union {run[t].plan}
  /\ UNCHANGED << commands, outside >>

\* Mutant: the plan file must be there, whatever it says.
AnyExpected(f, plan) == f.plan # None

\* --expect-plan: the identities are equal.
Expected(f, plan) == f.plan = plan

\* cmd_channel_apply, up to its write
ChannelApply(t) ==
  /\ Doing(t, "channel-apply")
  /\ LET plan == run[t].plan
         Decides(code) == Ends(t, code) /\ files' = Inspected(files, Confirmed(t))
     IN  IF NeedsAttention(files) THEN Leaves(t, "invalid")
         ELSE IF "expect-plan" \in run[t].flags /\ ~Expected(files, plan) THEN Decides("invalid")
         ELSE \/ Decides("invalid")  \* the plan has errors
              \/ IF TextOf(plan.before) = plan.desired THEN Decides("ok")
                 ELSE IF ~Confirmed(t) THEN Decides("refused")
                 ELSE /\ run' = [run EXCEPT ![t].seen = [user |-> files.user], ![t].step =
                                  IF "no-user-edits" \in run[t].flags THEN "commit" ELSE "save"]
                      /\ files' = Inspected(files, TRUE)
                      /\ UNCHANGED << promised, commands, outside >>

\* user_store.save(user_store.load()), before the commit: when user.ini is no
\* longer what was loaded, that is put back, unless it has no edits at all.
SaveUser(t) ==
  /\ run[t].step = "save"
  /\ \/ files.user # run[t].seen.user /\ Leaves(t, "error")
     \/ /\ run' = [run EXCEPT ![t].step = "commit"]
        /\ files' = [files EXCEPT !.user = run[t].seen.user]
        /\ UNCHANGED << promised, commands, outside >>

\* PreparedUpdate.commit; user.ini is no longer compared with anything.
Commit(t) ==
  /\ run[t].step = "commit"
  /\ IF files.override # run[t].plan.before \/ files.journal # None THEN Leaves(t, "error")
     ELSE /\ Ends(t, "ok")
          /\ files' = Written(files, run[t].plan.desired, TextOf(files.override))

\* cmd_apply: the values as they were rendered, planned when they are written.
Apply(t) ==
  /\ Doing(t, "apply")
  /\ LET text == [build |-> files.override.text.build,
                  values |-> [rendered |-> run[t].seen.rendered, user |-> run[t].seen.rendered.user]]
     IN  IF run[t].seen.rendered = None THEN Leaves(t, "error")
         ELSE IF "allow-game-folder" \notin run[t].flags THEN Leaves(t, "refused")
         ELSE IF NeedsAttention(files) THEN Leaves(t, "invalid")
         ELSE IF ~Confirmed(t) THEN Leaves(t, "refused")
         ELSE IF files.override = None
              THEN Ends(t, "error") /\ files' = Inspected(files, TRUE)
         ELSE /\ Ends(t, "ok")
              /\ files' = Written(Inspected(files, TRUE), text, TextOf(files.override))

\* cmd_channel_rollback and cmd_restore
Rollback(t, name) ==
  /\ Doing(t, name)
  /\ IF files.backup = None THEN Ends(t, "error") /\ files' = Inspected(files, Confirmed(t))
     ELSE IF NeedsAttention(files) THEN Leaves(t, "invalid")
     ELSE IF ~Confirmed(t) THEN Leaves(t, "refused")
     ELSE /\ Ends(t, "ok")
          /\ files' = Written(Inspected(files, TRUE), files.backup, TextOf(files.override))

ChannelRollback(t) == Rollback(t, "channel-rollback")

Restore(t) ==
  \/ "allow-game-folder" \in run[t].flags /\ Rollback(t, "restore")
  \/ /\ "allow-game-folder" \notin run[t].flags
     /\ Doing(t, "restore")
     /\ Leaves(t, IF files.backup = None THEN "error" ELSE "refused")

\* cmd_languages_restore_stock: the reviewed override goes.
RestoreStock(t) ==
  /\ Doing(t, "languages-restore-stock")
  /\ LET seen == run[t].seen.override
     IN  IF seen = None THEN Leaves(t, "ok")
         ELSE IF ~Confirmed(t) THEN Leaves(t, "refused")
         ELSE IF files.override # seen THEN Leaves(t, "error")
         ELSE IF NeedsAttention(files) THEN Leaves(t, "error")
         ELSE Ends(t, "ok") /\ files' = Written(Inspected(files, TRUE), None, seen.text)

\* cmd_languages_activate
Activate(t) ==
  /\ Doing(t, "languages-activate")
  /\ \E language \in 0 .. 1 :
       IF run[t].seen.cfg = language THEN Leaves(t, "ok")
       ELSE IF ~Confirmed(t) THEN Leaves(t, "refused")
       ELSE Replaces(t, "cfg", language)

-----------------------------------------------------------------------------
(* Stores of the user.                                                     *)

\* cmd_user_set and cmd_user_remove
UserSet(t) ==
  /\ Doing(t, "user-set")
  /\ IF ~Confirmed(t) THEN Leaves(t, "refused")
     ELSE \E version \in 0 .. 1 : Replaces(t, "user", version)

\* cmd_user_undo and cmd_user_redo
UserUndo(t) ==
  /\ Doing(t, "user-undo")
  /\ \/ Leaves(t, "error")  \* nothing to undo
     \/ IF ~Confirmed(t) THEN Leaves(t, "refused")
        ELSE Replaces(t, "user", Other(run[t].seen.user))

\* Mutant: the changes that are no conflict are imported.
ImportsAnyway(t, name) ==
  /\ Doing(t, name)
  /\ \/ Ends(t, "invalid") /\ files' = [files EXCEPT !.user = Other(@)]
     \/ Leaves(t, "ok")
     \/ IF ~Confirmed(t) THEN Leaves(t, "refused")
        ELSE Replaces(t, "user", Other(run[t].seen.user))

\* cmd_user_import and cmd_delta_pack_import
ImportsEdits(t, name) ==
  /\ Doing(t, name)
  /\ \/ Leaves(t, "invalid")  \* conflicts without a choice
     \/ Leaves(t, "ok")       \* nothing new
     \/ IF ~Confirmed(t) THEN Leaves(t, "refused")
        ELSE Replaces(t, "user", Other(run[t].seen.user))

UserImport(t) == ImportsEdits(t, "user-import")
DeltaPackImport(t) == ImportsEdits(t, "delta-pack-import")

\* cmd_languages_import; the pack is replaced whatever it is by then.
LanguagesImport(t) ==
  /\ Doing(t, "languages-import")
  /\ IF ~Confirmed(t) THEN Leaves(t, "refused")
     ELSE \E version \in 0 .. 1 : Writes(t, "pack", version)

\* cmd_blueprints_mark, cmd_blueprints_import and cmd_blueprints_resolve: a
\* plan for the revision that was loaded.
BlueprintsMark(t) ==
  /\ Doing(t, "blueprints-mark")
  /\ \/ Leaves(t, "ok")  \* nothing to change
     \/ IF ~Confirmed(t) THEN Leaves(t, "refused")
        ELSE Replaces(t, "owned", run[t].seen.owned + 1)

\* cmd_blueprints_scan asks for confirmation first.
BlueprintsScan(t) ==
  /\ Doing(t, "blueprints-scan")
  /\ IF ~Confirmed(t) THEN Leaves(t, "refused")
     ELSE Leaves(t, "ok") \/ Replaces(t, "owned", run[t].seen.owned + 1)

\* cmd_settings_import
SettingsImport(t) ==
  /\ Doing(t, "settings-import")
  /\ \E version \in 0 .. 1 :
       LET changes == run[t].seen.settings # version
       IN  IF ~Confirmed(t) THEN Leaves(t, "refused")
           ELSE IF changes /\ "replace-existing" \notin run[t].flags THEN Leaves(t, "invalid")
           ELSE Replaces(t, "settings", version)

-----------------------------------------------------------------------------
(* Exports write the file that was named, what was shown or nothing.       *)

Export(t, name, file, checksFirst) ==
  /\ Doing(t, name)
  /\ LET exists == files.out # None /\ "overwrite" \notin run[t].flags
     IN  IF checksFirst /\ exists THEN Leaves(t, "error")
         ELSE IF ~Confirmed(t) THEN Leaves(t, "refused")
         ELSE IF exists THEN Leaves(t, "error")
         ELSE IF file \in {"user", "settings"} /\ files[file] # run[t].seen[file]
         THEN Leaves(t, "error")
         ELSE Writes(t, "out", << name, run[t].seen[file] >>)

DeltaPackExport(t)   == Export(t, "delta-pack-export", "user", FALSE)
SettingsExport(t)    == Export(t, "settings-export", "settings", FALSE)
DiagnosticsExport(t) == Export(t, "diagnostics-export", "archive", FALSE)
BlueprintsExport(t)  == Export(t, "blueprints-export", "owned", TRUE)

-----------------------------------------------------------------------------
(* Other programs.                                                         *)

Outside ==
  /\ outside < MaxOutside
  /\ outside' = outside + 1
  /\ UNCHANGED << run, promised, commands >>

\* The launcher installs a build.
Patch == Outside /\ files' = [files EXCEPT !.archive = 2] /\ files.archive = 1

\* Another program writes the override.
OutsideWrite ==
  /\ Outside
  /\ files' = Written(files, [build |-> files.archive, values |-> None], None)

\* A window is killed while it writes the override.
Interrupted ==
  /\ Outside
  /\ files.journal = None /\ files.rendered # None
  /\ LET text == [build |-> files.archive,
                  values |-> [rendered |-> files.rendered, user |-> files.user]]
         begun == [files EXCEPT !.journal = [before |-> files.override, after |-> text]]
     IN  files' \in {begun, Written(begun, text, TextOf(files.override))}

-----------------------------------------------------------------------------
\* A user who has read the game, rendered it, and applied nothing yet.
Init ==
  /\ files = [archive |-> 1, cache |-> [build |-> 1, scoped |-> TRUE],
              rendered |-> [build |-> 1, owned |-> 0, pack |-> 0, user |-> 0],
              plan |-> None, user |-> 0, pack |-> 0, owned |-> 0, override |-> None,
              backup |-> None, journal |-> None, cfg |-> 0, settings |-> 0, out |-> None,
              writes |-> 0]
  /\ run = [t \in Terminals |-> Idle("ok")]
  /\ promised = {} /\ commands = [t \in Terminals |-> 0] /\ outside = 0

Reading(t) == Import(t) \/ Scmdb(t) \/ Render(t) \/ Stock(t)

GameFiles(t) ==
  \/ PrepareText(t) \/ PreparePlan(t) \/ ChannelPreview(t) \/ ChannelApply(t)
  \/ SaveUser(t) \/ Commit(t) \/ Apply(t) \/ ChannelRollback(t) \/ Restore(t) \/ RestoreStock(t) \/ Activate(t)

Stores(t) ==
  \/ UserSet(t) \/ UserUndo(t) \/ UserImport(t) \/ DeltaPackImport(t) \/ LanguagesImport(t)
  \/ BlueprintsMark(t) \/ BlueprintsScan(t) \/ SettingsImport(t)

Exports(t) ==
  DeltaPackExport(t) \/ SettingsExport(t) \/ DiagnosticsExport(t) \/ BlueprintsExport(t)

Next ==
  \/ \E t \in Terminals : Start(t) \/ Reading(t) \/ GameFiles(t) \/ Stores(t) \/ Exports(t)
  \/ Patch \/ OutsideWrite \/ Interrupted

Spec == Init /\ [][Next]_vars

-----------------------------------------------------------------------------
(* Properties, of steps.                                                   *)

Stepping(t) == run[t].name # None /\ run'[t] # run[t]

Personal == {"user", "pack", "owned", "override", "backup", "cfg", "settings"}

Changes(file) == files'[file] # files[file]

\* `channel apply` puts the user.ini back that it has loaded.
PutsBack(t) ==
  /\ run[t].name = "channel-apply"
  /\ files' = [files EXCEPT !.user = run[t].seen.user]

\* Only a confirmed command changes a store, and the step that does is its last
\* one and ends it with success; so a command that fails, wherever in it the
\* decision falls, has changed no store in any of its steps.  The exception is
\* user.ini, which `channel apply` may put back before a commit that fails.
OnlySuccessChanges ==
  \A t \in Terminals :
    Stepping(t) /\ (\E file \in Personal : Changes(file)) =>
      Confirmed(t) /\ (run'[t] = Idle("ok") \/ PutsBack(t))

\* `channel apply --expect-plan` writes only text that a saved preview
\* promised, over the very file the preview was made for, whatever ran since.
ExpectedPlanIsWritten ==
  \A t \in Terminals :
    Stepping(t) /\ "expect-plan" \in run[t].flags /\ files'.override # files.override =>
      [before |-> files.override, desired |-> TextOf(files'.override)] \in promised
=============================================================================
