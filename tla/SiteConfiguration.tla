------------------------- MODULE SiteConfiguration -------------------------
(***************************************************************************)
(* The commands that move a site between its configuration directory and   *)
(* its database: `aether setup` (plan and apply), `aether sync` with its    *)
(* merge and force modes, the dry run, and `aether export`.                *)
(*                                                                         *)
(* The commands are processes: between two of their steps another command, *)
(* an editor of the directory or a running service may change what they    *)
(* looked at, and a command may die.  A transaction of ConfigSyncer is one *)
(* step.  A configuration is what the directory says: channels, instances, *)
(* measurement routes and rules by name; a site is the rows of aether.db.  *)
(***************************************************************************)
EXTENDS Naturals, Sequences, FiniteSets, FiniteSetsExt, SequencesExt

CONSTANTS
  Commands,        \* the processes that run an aether command
  SiteChannels,    \* channel ids
  SiteNames,       \* names of instances, in the order a map is read
  SiteConfigs,     \* what an engineer may write into the directory
  MaxSyncs,        \* how often the heads are advanced by a sync
  MaxSiteEdits     \* how often a service writes, a command dies or a release is replaced

VARIABLES
  disk,            \* the configuration directory
  site,            \* the database
  saved,           \* the last export: the files and the site they were made of
  command,         \* the running commands
  setupLock,       \* does .aether-setup.lock exist
  owner,           \* the runtime owners: running, and what they have loaded
  siteEdits

siteVars == <<disk, site, saved, command, setupLock, owner, siteEdits>>

SafeFiles == {"io", "automation"}
SafeConfig == [settings |-> "safe", channels |-> {}, form |-> "array", instances |-> <<>>,
               routed |-> {}, actions |-> FALSE, rules |-> {}]
NoSite == [exists |-> FALSE, settings |-> "none", channels |-> {}, instances |-> {},
           routes |-> {}, actions |-> FALSE, rules |-> {}, ruleIds |-> 0, head |-> 0]
EmptySite == [NoSite EXCEPT !.exists = TRUE]
IdleCommand == [does |-> "nothing", at |-> "idle", plan |-> <<>>]
NoExport == [files |-> SafeConfig, site |-> NoSite]
NoOwner == [running |-> FALSE, head |-> 0, view |-> <<>>]

---------------------------------------------------------------------------
(* ConfigSyncer: one transaction, from the site it finds to the one it     *)
(* commits, or nothing.                                                    *)

Names(s) == {i.name : i \in s.instances}
Rows(s) == <<s.channels, s.instances, s.routes, s.rules>>
Commissioned(s) == s.channels # {} \/ s.instances # {} \/ s.rules # {}

SiteRefused == [refused |-> TRUE]

(* Force replaces: the routes, points, channels, instances and rules go    *)
(* first, which only a site without action routes allows.                  *)
Emptied(s) ==
  [s EXCEPT !.channels = {}, !.instances = {}, !.routes = {}, !.rules = {}]

(* Channels with an invalid id are passed over, as insert_channels does. *)
insert_channels(s, c) == [s EXCEPT !.channels = @ \cup (c.channels \cap SiteChannels)]

get_next_instance_id(s) == IF s.instances = {} THEN 1 ELSE Max({i.id : i \in s.instances}) + 1

(* An entry of the array form brings its id and replaces the row of that   *)
(* id; one of the object form gets the next free id.  A name is unique.    *)
process_single_instance(s, c, k) ==
  IF s = SiteRefused THEN SiteRefused
  ELSE LET id == IF c.form = "array" THEN k ELSE get_next_instance_id(s)
           others == {i \in s.instances : i.id # id}
           moved == {r \in s.routes : \A i \in s.instances : i.id = id => r.name # i.name}
       IN  IF \E i \in others : i.name = c.instances[k] THEN SiteRefused
           ELSE [s EXCEPT !.instances = others \cup {[id |-> id, name |-> c.instances[k]]},
                          !.routes = IF \E i \in s.instances : i.id = id /\ i.name # c.instances[k]
                                     THEN moved ELSE @]

sync_instances(s, c) ==
  FoldLeft(LAMBDA t, k : process_single_instance(t, c, k), s, [k \in 1..Len(c.instances) |-> k])

(* A measurement route needs its instance and its point; an action route   *)
(* is refused here, whatever it names.                                     *)
insert_instance_mappings(s, c) ==
  IF \/ s = SiteRefused \/ c.actions
     \/ c.routed # {} /\ s.channels = {}
  THEN SiteRefused
  ELSE LET routes == {[name |-> n, channel |-> Min(s.channels)] :
                        n \in c.routed \cap {c.instances[k] : k \in 1..Len(c.instances)}}
       IN  [s EXCEPT !.routes = {r \in @ : r.name \notin c.routed} \cup routes]

(* A rule is found by name; one that is not there gets the next id and     *)
(* loses the cooldown its file may carry.                                  *)
sync_rules(s, c) ==
  IF s = SiteRefused THEN SiteRefused
  ELSE LET known == {r.name : r \in s.rules}
           add(t, n) == [t EXCEPT !.ruleIds = @ + 1,
                                  !.rules = @ \cup {[name |-> n, id |-> t.ruleIds + 1, cooldown |-> FALSE]}]
       IN  FoldLeft(add, s, SetToSeq({r.name : r \in c.rules} \ known))

advance_offline_configuration_heads(s) == IF s = SiteRefused THEN s ELSE [s EXCEPT !.head = @ + 1]

Unguarded(s, t) == t

requiring_empty_site(s, t) ==
  IF Commissioned(s) \/ (t # SiteRefused /\ Commissioned(t)) THEN SiteRefused ELSE t

sync_all(s, c, mode) ==
  IF mode = "force" /\ s.actions THEN SiteRefused
  ELSE LET start == IF mode = "force" THEN Emptied(s) ELSE s
           io == insert_channels([start EXCEPT !.settings = c.settings], c)
           automation == sync_rules(insert_instance_mappings(sync_instances(io, c), c), c)
           result == advance_offline_configuration_heads(automation)
       IN  IF mode = "empty" THEN requiring_empty_site(s, result) ELSE result

(* ConfigExporter: instances are written by name, without their ids;       *)
(* global settings go to a directory of their own, which sync does not     *)
(* read.                                                                   *)
export_instances(s) ==
  [k \in 1..Cardinality(s.instances) |->
     CHOOSE n \in Names(s) : Cardinality({m \in Names(s) : SiteNames[m] < SiteNames[n]}) = k - 1]

export_service(s) ==
  [settings |-> "safe", channels |-> s.channels, form |-> "object",
   instances |-> export_instances(s), routed |-> {r.name : r \in s.routes},
   actions |-> s.actions, rules |-> {[name |-> r.name] : r \in s.rules}]

---------------------------------------------------------------------------
(* aether setup. *)

(* What a plan is bound to: every file and the content of the database. *)
Fingerprint == <<disk, site>>

SiteState ==
  IF Commissioned(site) THEN "existing"
  ELSE IF disk.config # SafeConfig
       THEN IF disk.missing # {} THEN "blocked" ELSE "existing"
  ELSE IF disk.missing = SafeFiles /\ ~site.exists THEN "fresh"
  ELSE IF disk.missing = {} /\ site.exists /\ site.settings # "none" THEN "safe_ready"
  ELSE "safe_partial"

Moves(c, r) == command' = [command EXCEPT ![c] = r]
Ends(c) == Moves(c, IdleCommand)

SetupPlans(c) ==
  /\ command[c] = IdleCommand
  /\ Moves(c, [does |-> "setup", at |-> "planned", plan |-> Fingerprint])
  /\ UNCHANGED <<disk, site, saved, setupLock, owner, siteEdits>>

(* apply: the plan must still be the site's, and the site one that setup   *)
(* may touch; then the lock.                                               *)
SetupApplies(c) ==
  /\ command[c].does = "setup" /\ command[c].at = "planned"
  /\ IF command[c].plan = Fingerprint /\ SiteState \in {"fresh", "safe_partial"} /\ ~setupLock
     THEN setupLock' = TRUE /\ Moves(c, [command[c] EXCEPT !.at = "locked"])
     ELSE UNCHANGED setupLock /\ Ends(c)
  /\ UNCHANGED <<disk, site, saved, owner, siteEdits>>

Unlocks(c) == setupLock' = FALSE /\ Ends(c)

SetupAnalyzesAgain(c) ==
  /\ command[c].at = "locked"
  /\ IF command[c].plan = Fingerprint
     THEN UNCHANGED setupLock /\ Moves(c, [command[c] EXCEPT !.at = "creating"])
     ELSE Unlocks(c)
  /\ UNCHANGED <<disk, site, saved, owner, siteEdits>>

(* create_safe_file never replaces a file that has appeared since. *)
SetupCreates(c) ==
  /\ command[c].at = "creating"
  /\ LET wanted == command[c].plan[1].missing IN
     \/ \E f \in wanted \cap disk.missing :
          /\ disk' = [disk EXCEPT !.missing = @ \ {f}]
          /\ UNCHANGED <<command, setupLock>>
     \/ /\ wanted \cap disk.missing = {}
        /\ Moves(c, [command[c] EXCEPT !.at = "created"])
        /\ UNCHANGED <<disk, setupLock>>
  /\ UNCHANGED <<site, saved, owner, siteEdits>>

SetupPrecommits(c) ==
  /\ command[c].at = "created"
  /\ IF /\ SiteState = "safe_partial" /\ disk.missing = {}
        /\ site = command[c].plan[2]
     THEN UNCHANGED setupLock /\ Moves(c, [command[c] EXCEPT !.at = "initialize"])
     ELSE Unlocks(c)
  /\ UNCHANGED <<disk, site, saved, owner, siteEdits>>

SetupInitializes(c) ==
  /\ command[c].at = "initialize"
  /\ site' = [site EXCEPT !.exists = TRUE]
  /\ Moves(c, [command[c] EXCEPT !.at = "sync"])
  /\ UNCHANGED <<disk, saved, setupLock, owner, siteEdits>>

SetupSyncs(c) ==
  /\ command[c].at = "sync" /\ command[c].does = "setup"
  /\ LET t == sync_all(site, SafeConfig, "empty")
     IN  site' = IF t = SiteRefused THEN site ELSE t
  /\ Unlocks(c)
  /\ UNCHANGED <<disk, saved, owner, siteEdits>>

---------------------------------------------------------------------------
(* aether sync and aether export. *)

SyncChecksOwners(c, mode) ==
  /\ command[c] = IdleCommand
  /\ ~owner.running /\ disk.missing = {} /\ site.head < MaxSyncs
  /\ Moves(c, [does |-> mode, at |-> "apply", plan |-> <<>>])
  /\ UNCHANGED <<disk, site, saved, setupLock, owner, siteEdits>>

SyncApplies(c) ==
  /\ command[c].at = "apply"
  /\ LET s == [site EXCEPT !.exists = TRUE]
         t == sync_all(s, disk.config, command[c].does)
     IN  site' = IF t = SiteRefused THEN s ELSE t
  /\ Ends(c)
  /\ UNCHANGED <<disk, saved, setupLock, owner, siteEdits>>

ExportWrites(c) ==
  /\ command[c] = IdleCommand /\ site.exists /\ saved = NoExport      \* one export is enough
  /\ saved' = [files |-> export_service(site), site |-> site]
  /\ UNCHANGED <<disk, site, command, setupLock, owner, siteEdits>>

(* A command that dies leaves what it has written, and the lock. *)
CommandDies(c) ==
  /\ command[c] # IdleCommand /\ siteEdits < MaxSiteEdits
  /\ siteEdits' = siteEdits + 1
  /\ Ends(c)
  /\ UNCHANGED <<disk, site, saved, setupLock, owner>>

---------------------------------------------------------------------------
(* Those around the commands. *)

Intervenes == siteEdits < MaxSiteEdits /\ siteEdits' = siteEdits + 1

EngineerWrites ==
  /\ \E c \in SiteConfigs : disk' = [missing |-> {}, config |-> c]
  /\ UNCHANGED <<site, saved, command, setupLock, owner, siteEdits>>

EngineerRestores ==
  /\ saved # NoExport
  /\ disk' = [missing |-> {}, config |-> saved.files]
  /\ UNCHANGED <<site, saved, command, setupLock, owner, siteEdits>>

(* The release is replaced: a new installation with an empty database. *)
Reinstalled ==
  /\ Intervenes
  /\ site' = EmptySite
  /\ owner' = NoOwner
  /\ UNCHANGED <<disk, saved, command, setupLock>>

OwnerStarts ==
  /\ ~owner.running /\ site.exists /\ siteEdits < MaxSiteEdits
  /\ owner' = [running |-> TRUE, head |-> site.head, view |-> Rows(site)]
  /\ UNCHANGED <<disk, site, saved, command, setupLock, siteEdits>>

OwnerStops ==
  /\ owner.running
  /\ owner' = NoOwner
  /\ UNCHANGED <<disk, site, saved, command, setupLock, siteEdits>>

(* A governed edit of a running service commits against the head it has    *)
(* loaded.                                                                 *)
GovernedEdit ==
  /\ owner.running /\ Intervenes
  /\ owner.head = site.head
  /\ \/ site' = [site EXCEPT !.actions = TRUE, !.head = @ + 1]
     \/ \E r \in site.rules :
          site' = [site EXCEPT !.rules = (@ \ {r}) \cup {[r EXCEPT !.cooldown = TRUE]}, !.head = @ + 1]
  /\ owner' = [owner EXCEPT !.head = site'.head, !.view = Rows(site')]
  /\ UNCHANGED <<disk, saved, command, setupLock>>

---------------------------------------------------------------------------

SiteInit ==
  /\ disk \in {[missing |-> SafeFiles, config |-> SafeConfig], [missing |-> {}, config |-> SafeConfig]}
  /\ site \in {NoSite, EmptySite}
  /\ saved = NoExport
  /\ command = [c \in Commands |-> IdleCommand]
  /\ setupLock = FALSE
  /\ owner = NoOwner
  /\ siteEdits = 0

CommandNext(c) ==
  \/ SetupPlans(c) \/ SetupApplies(c) \/ SetupAnalyzesAgain(c) \/ SetupCreates(c)
  \/ SetupPrecommits(c) \/ SetupInitializes(c) \/ SetupSyncs(c)
  \/ SyncChecksOwners(c, "merge") \/ SyncChecksOwners(c, "force") \/ SyncApplies(c)
  \/ ExportWrites(c) \/ CommandDies(c)

SiteNext ==
  \/ \E c \in Commands : CommandNext(c)
  \/ EngineerWrites \/ EngineerRestores \/ Reinstalled
  \/ OwnerStarts \/ OwnerStops \/ GovernedEdit

SiteSpec == SiteInit /\ [][SiteNext]_siteVars

---------------------------------------------------------------------------
(* Properties. *)

SiteTypeOK ==
  /\ disk.missing \subseteq SafeFiles
  /\ site.exists \in BOOLEAN /\ site.channels \subseteq SiteChannels
  /\ \A i \in site.instances : i.id \in Nat /\ i.name \in DOMAIN SiteNames
  /\ setupLock \in BOOLEAN /\ owner.running \in BOOLEAN
  /\ siteEdits \in 0..MaxSiteEdits

(* Whatever the order of merges, replacements and renamed instances, a     *)
(* measurement route always has an instance of its name and a channel, and *)
(* ids and names of instances stay unique.                                 *)
RoutesHaveEnds ==
  /\ \A r \in site.routes : r.name \in Names(site) /\ r.channel \in site.channels
  /\ Cardinality(Names(site)) = Cardinality(site.instances)
  /\ Cardinality({i.id : i \in site.instances}) = Cardinality(site.instances)

(* A service that was started while a sync was between its check of the    *)
(* owners and its transaction cannot write what it loaded: the heads the   *)
(* sync advances tell the two apart.                                       *)
StaleOwnersCannotWrite ==
  owner.running /\ owner.head = site.head => owner.view = Rows(site)

(* Only one setup writes at a time. *)
OneSetupWrites ==
  \A c, d \in Commands :
    /\ command[c].at \in {"locked", "creating", "created", "initialize", "sync"}
    /\ command[d].at \in {"locked", "creating", "created", "initialize", "sync"}
    => c = d

(* Setup never changes a site someone has commissioned meanwhile, even     *)
(* when that happens after its last look at it.                            *)
SetupKeepsASite ==
  [][\A c \in Commands :
       command[c].at = "sync" /\ Commissioned(site) /\ command'[c] = IdleCommand
         => site' = site]_siteVars

(* What a restored export brings back: the site it was made of.  It does   *)
(* not hold: the export has no instance ids, and sync numbers the          *)
(* instances anew in the order of their names and drops the cooldowns.     *)
RestoreBringsBack ==
  /\ disk.config = saved.files /\ saved.site.exists
  /\ Names(site) = Names(saved.site) /\ site.head > 0
  => site.instances = saved.site.instances
=============================================================================
