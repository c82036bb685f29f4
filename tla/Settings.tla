------------------------------ MODULE Settings ------------------------------
(***************************************************************************)
(* What an organization sets up: AI service configs and agent configs      *)
(* (httpapi/settings.go, settings_agent.go), service bundles               *)
(* (httpapi/service_bundles.go, services/servicebundle), prompt templates  *)
(* with their revisions (httpapi/prompt_templates.go), the skill registry  *)
(* (services/skillregistry) and the seeding of all of them at boot         *)
(* (db/db.go).  Handlers that read before they lock are two actions.       *)
(***************************************************************************)
EXTENDS Integers, Sequences, FiniteSets, SequencesExt, FiniteSetsExt

CONSTANTS ServiceTypes,  \* text, image, video, audio
          Text,          \* the first service of every bundle: the one that agents use
          AgentTypes,    \* the agents that have defaults
          Idents,        \* what tells two configs of a type apart: provider, URL, model, name
          Mock,          \* the identity of the seeded mock configs
          Keys,          \* keys of prompt templates; an agent's type is one
          Contents,      \* what a request may write into a template or an agent's prompt
          NoContent,     \* an empty prompt, and a template that was never written
          Patches,       \* bodies of an update: records with some of the fields of a config
          Bundles,       \* drafts: for each service type an identity and two flags
          Clients,       \* requests that read before they write
          MaxOps         \* bound: requests and restarts

Configs == [type : ServiceTypes, ident : Idents, default : BOOLEAN, active : BOOLEAN]
Services == [ident : Idents, default : BOOLEAN, active : BOOLEAN]

\* A row or a body with the fields of another one laid over it.
Over(patch, row) == [f \in DOMAIN row |-> IF f \in DOMAIN patch THEN patch[f] ELSE row[f]]

\* A patch leaves a row a row.  A draft whose default is not active is refused before it is read.
ASSUME SettingsAssumption ==
  /\ Mock \in Idents /\ MaxOps \in Nat
  /\ IsFiniteSet(ServiceTypes) /\ IsFiniteSet(AgentTypes)
  /\ Text \in ServiceTypes /\ "none" \notin ServiceTypes
  /\ AgentTypes \subseteq Keys /\ NoContent \notin Contents
  /\ \A patch \in Patches, row \in Configs : Over(patch, row) \in Configs
  /\ Bundles \subseteq {b \in [ServiceTypes -> Services] :
                         \A type \in ServiceTypes : b[type].default => b[type].active}

VARIABLES
  config,       \* ai_service_configs, in the order of their ids
  agent,        \* agent_configs, in the order of their ids
  template,     \* prompt_templates, in the order of their ids
  revision,     \* prompt_template_revisions of each template, in the order of insertion
  skill,        \* the published version of each agent's skill, and whether it is archived
  version,      \* skill_versions, in the order of their ids
  publication,  \* skill_publications, in the order of their ids
  pending,      \* what each client's request has read
  overtaken,    \* history: an update was written over a config that changed since it was read
  ops           \* requests and restarts so far

registry == <<skill, version, publication>>
prompts == <<template, revision>>
vars == <<config, agent, prompts, registry, pending, overtaken, ops>>

Idle == [kind |-> "idle"]
Gone == [type |-> "none", ident |-> Mock, default |-> FALSE, active |-> FALSE]
NoVersion == 0

\* What a built-in template says: the text is a function of its key.
DefaultOf(key) == key

(***************************************************************************)
(* Boot.  The seeds of a table are added where nothing like them is found. *)
(***************************************************************************)
\* The table with one more row for each type in new.  The order of the new rows is fixed here but
\* never observed: every lookup is by a type, and no two of them have the same one.
Added(rows, new) == rows \o [n \in 1..Cardinality(DOMAIN new) |-> new[SetToSeq(DOMAIN new)[n]]]

NewConfig(type, item) ==
  [type |-> type, ident |-> item.ident, default |-> item.default, active |-> item.active]

NewAgent(type, body) ==
  [type |-> type, model |-> body.model, prompt |-> body.prompt, active |-> body.active, deleted |-> FALSE]

\* What the body of an agent's seed or of a bundle says.
Plain(model) == [model |-> model, prompt |-> NoContent, active |-> TRUE]

SeededConfigs(rows) ==
  LET missing == {type \in ServiceTypes :
                    \A i \in DOMAIN rows : rows[i].type = type => rows[i].ident # Mock}
  IN  Added(rows, [type \in missing |->
                     NewConfig(type, [ident |-> Mock, default |-> FALSE, active |-> TRUE])])

\* A deleted row does not count: a second one is added beside it.
SeededAgents(rows) ==
  LET missing == {type \in AgentTypes : \A i \in DOMAIN rows : rows[i].type = type => rows[i].deleted}
  IN  Added(rows, [type \in missing |-> NewAgent(type, Plain(NoContent))])

\* A missing template starts from the prompt its agent's config still carries, if there is one.
SeedContent(key) ==
  LET legacy == {i \in DOMAIN agent : agent[i].type = key /\ ~agent[i].deleted}
  IN  IF legacy # {} /\ agent[Min(legacy)].prompt # NoContent
      THEN agent[Min(legacy)].prompt ELSE DefaultOf(key)

Unseeded == {key \in AgentTypes : \A t \in DOMAIN template : template[t].key # key}

Fresh(key, content) == [key |-> key, content |-> content, version |-> 1, deleted |-> FALSE]

Recorded(row) == [version |-> row.version, key |-> row.key, content |-> row.content]

SeededTemplates ==
  /\ template' = Added(template, [key \in Unseeded |-> Fresh(key, SeedContent(key))])
  /\ revision' = Added(revision, [key \in Unseeded |-> <<Recorded(Fresh(key, SeedContent(key)))>>])

Init ==
  /\ config = SeededConfigs(<<>>)
  /\ agent = SeededAgents(<<>>)
  /\ template = Added(<<>>, [key \in AgentTypes |-> Fresh(key, DefaultOf(key))])
  /\ revision = Added(<<>>, [key \in AgentTypes |-> <<Recorded(Fresh(key, DefaultOf(key)))>>])
  /\ skill = [type \in AgentTypes |-> [published |-> NoVersion, archived |-> FALSE]]
  /\ version = <<>>
  /\ publication = <<>>
  /\ pending = [c \in Clients |-> Idle]
  /\ overtaken = FALSE
  /\ ops = 0

Counted == ops < MaxOps /\ ops' = ops + 1

\* The process restarts: requests are lost, and the seeds of the organization are looked for.
Restart ==
  /\ Counted
  /\ pending' = [c \in Clients |-> Idle]
  /\ config' = SeededConfigs(config)
  /\ agent' = SeededAgents(agent)
  /\ SeededTemplates
  /\ UNCHANGED <<registry, overtaken>>

(***************************************************************************)
(* AI service configs.                                                     *)
(***************************************************************************)
OfType(rows, type) == {i \in DOMAIN rows : rows[i].type = type}

Undefaulted(rows, type, spared) ==
  [i \in DOMAIN rows |->
     IF rows[i].type = type /\ i # spared THEN [rows[i] EXCEPT !.default = FALSE] ELSE rows[i]]

CreateConfig(type, ident, default, active) ==
  /\ Counted
  /\ default => active
  /\ config' = Append(IF default THEN Undefaulted(config, type, 0) ELSE config,
                      NewConfig(type, [ident |-> ident, default |-> default, active |-> active]))
  /\ UNCHANGED <<agent, prompts, registry, pending, overtaken>>

\* As a bug: deactivating a config leaves its default alone.
UpdateRead_KeepsDefault(c, id, patch) ==
  LET candidate == Over(patch, config[id])
  IN  /\ Counted
      /\ pending[c] = Idle
      /\ config[id] # Gone
      /\ candidate.active \/ ~("default" \in DOMAIN patch /\ patch.default)
      /\ pending' = [pending EXCEPT ![c] =
           [kind |-> "update", id |-> id, read |-> config[id], patch |-> patch,
            clears |-> IF candidate.active /\ candidate.default THEN {candidate.type} ELSE {}]]
      /\ UNCHANGED <<config, agent, prompts, registry, overtaken>>

\* updateAIConfig reads the row, and decides by it, before it takes the lock ...
UpdateRead(c, id, patch) ==
  LET row == config[id]
      candidate == Over(patch, row)
  IN  /\ Counted
      /\ pending[c] = Idle
      /\ row # Gone
      /\ candidate.active \/ ~("default" \in DOMAIN patch /\ patch.default)
      /\ pending' = [pending EXCEPT ![c] =
           [kind |-> "update", id |-> id, read |-> row,
            patch |-> IF candidate.active THEN patch
                      ELSE [f \in DOMAIN patch \union {"default"} |->
                              IF f = "default" THEN FALSE ELSE patch[f]],
            clears |-> IF candidate.active /\ candidate.default THEN {candidate.type} ELSE {}]]
      /\ UNCHANGED <<config, agent, prompts, registry, overtaken>>

Unset(rows, types, spared) ==
  IF types = {} THEN rows ELSE Undefaulted(rows, CHOOSE type \in types : TRUE, spared)

\* ... and writes what it decided.  The others lose their default even when the row is gone.
UpdateWrite(c) ==
  LET p == pending[c]
      row == config[p.id]
  IN  /\ p.kind = "update"
      /\ config' = [Unset(config, p.clears, p.id) EXCEPT ![p.id] =
                      IF row = Gone THEN Gone ELSE Over(p.patch, row)]
      /\ overtaken' = (overtaken \/ row # p.read)
      /\ pending' = [pending EXCEPT ![c] = Idle]
      /\ UNCHANGED <<agent, prompts, registry, ops>>

DeleteConfig(id) ==
  /\ Counted
  /\ config[id] # Gone
  /\ config' = [config EXCEPT ![id] = Gone]
  /\ UNCHANGED <<agent, prompts, registry, pending, overtaken>>

(***************************************************************************)
(* Agent configs.                                                          *)
(***************************************************************************)
\* A body that leaves a field out is one that repeats what the row says.
AgentBodies == [model : Idents \union {NoContent}, prompt : Contents \union {NoContent}, active : BOOLEAN]

\* The row that upsertAgentConfig and a bundle take for an agent: the last one, deleted or not.
Latest(rows, type) == Max(OfType(rows, type))

\* An upsert writes every column, also of a row that was deleted.
UpsertAgent(type, body) ==
  /\ Counted
  /\ agent' = IF OfType(agent, type) = {}
              THEN Append(agent, NewAgent(type, body))
              ELSE [agent EXCEPT ![Latest(agent, type)] = NewAgent(type, body)]
  /\ UNCHANGED <<config, prompts, registry, pending, overtaken>>

UpdateAgent(id, body) ==
  /\ Counted
  /\ ~agent[id].deleted
  /\ agent' = [agent EXCEPT ![id] = Over(body, @)]
  /\ UNCHANGED <<config, prompts, registry, pending, overtaken>>

DeleteAgent(id) ==
  /\ Counted
  /\ ~agent[id].deleted
  /\ agent' = [agent EXCEPT ![id].deleted = TRUE]
  /\ UNCHANGED <<config, prompts, registry, pending, overtaken>>

(***************************************************************************)
(* Service bundles.  A preview reads the configs and then the agents, and  *)
(* its token is a digest of both; applying it compares the token under the *)
(* organization's lock.                                                    *)
(***************************************************************************)
Matching(rows, type, item) == {i \in DOMAIN rows : rows[i].type = type /\ rows[i].ident = item.ident}

\* The configs that the preview's conflicts name: those reused, and the defaults replaced.
Named(rows, bundle) ==
  UNION {Matching(rows, type, bundle[type])
           \union {i \in OfType(rows, type) : bundle[type].default /\ rows[i].default}
         : type \in ServiceTypes}

PreviewConfigs(c, bundle, withAgents) ==
  /\ Counted
  /\ pending[c] = Idle
  /\ pending' = [pending EXCEPT ![c] =
       [kind |-> "preview", bundle |-> bundle, withAgents |-> withAgents, configs |-> config]]
  /\ UNCHANGED <<config, agent, prompts, registry, overtaken>>

PreviewAgents(c) ==
  LET p == pending[c]
  IN  /\ p.kind = "preview"
      /\ pending' = [pending EXCEPT ![c] =
           [kind |-> "token", bundle |-> p.bundle, withAgents |-> p.withAgents, configs |-> p.configs,
            agents |-> IF p.withAgents THEN agent ELSE <<>>]]
      /\ UNCHANGED <<config, agent, prompts, registry, overtaken, ops>>

\* As a bug: the token does not cover what the configs hold.
TokenHolds_Counts(p) == Len(p.configs) = Len(config) /\ (p.withAgents => p.agents = agent)

TokenHolds(p) == p.configs = config /\ (p.withAgents => p.agents = agent)

\* Each service of a bundle: the equivalent config is reused, or one is created.
Placed(rows, bundle) ==
  LET Reusable(type) == Matching(rows, type, bundle[type])
      Reuses(i) == Reusable(rows[i].type) # {} /\ i = Max(Reusable(rows[i].type))
  IN  Added([i \in DOMAIN rows |->
               IF rows[i].type \notin ServiceTypes THEN rows[i]
               ELSE IF Reuses(i) THEN Over(bundle[rows[i].type], rows[i])
               ELSE IF bundle[rows[i].type].default THEN [rows[i] EXCEPT !.default = FALSE]
               ELSE rows[i]],
            [type \in {t \in ServiceTypes : Reusable(t) = {}} |-> NewConfig(type, bundle[type])])

\* The agents take the model of the bundle's text service.
WithModel(rows, model) ==
  Added([i \in DOMAIN rows |->
           IF i = Latest(rows, rows[i].type)
           THEN [rows[i] EXCEPT !.model = model, !.active = TRUE, !.deleted = FALSE] ELSE rows[i]],
        [type \in {t \in AgentTypes : OfType(rows, t) = {}} |-> NewAgent(type, Plain(model))])

ApplyBundle(c) ==
  LET p == pending[c]
  IN  /\ p.kind = "token"
      /\ Counted
      /\ TokenHolds(p)
      /\ config' = Placed(config, p.bundle)
      /\ agent' = IF p.withAgents THEN WithModel(agent, p.bundle[Text].ident) ELSE agent
      /\ pending' = [pending EXCEPT ![c] = Idle]
      /\ UNCHANGED <<prompts, registry, overtaken>>

\* A stale token is a conflict: the client has to preview again.
RefuseBundle(c) ==
  /\ pending[c].kind = "token"
  /\ ~TokenHolds(pending[c])
  /\ pending' = [pending EXCEPT ![c] = Idle]
  /\ UNCHANGED <<config, agent, prompts, registry, overtaken, ops>>

(***************************************************************************)
(* Prompt templates.  A row and the revision that records it are written   *)
(* in one transaction, under a lock of the row.                            *)
(***************************************************************************)
Holders(key) == {t \in DOMAIN template : template[t].key = key}

Rewritten(t, row) ==
  /\ template' = [template EXCEPT ![t] = row]
  /\ revision' = [revision EXCEPT ![t] = Append(@, Recorded(row))]

Following(t, key, content) ==
  [key |-> key, content |-> content, version |-> template[t].version + 1, deleted |-> FALSE]

CreateTemplate(key, content) ==
  /\ Counted
  /\ Holders(key) = {}
  /\ template' = Append(template, Fresh(key, content))
  /\ revision' = Append(revision, <<Recorded(Fresh(key, content))>>)
  /\ UNCHANGED <<config, agent, registry, pending, overtaken>>

\* As a bug: the revived template starts at version 1 again.
ReviveTemplate_Renumbered(t, content) ==
  /\ Counted
  /\ template[t].deleted
  /\ Rewritten(t, Fresh(template[t].key, content))
  /\ UNCHANGED <<config, agent, registry, pending, overtaken>>

\* The key of a deleted template brings the row back.
ReviveTemplate(t, content) ==
  /\ Counted
  /\ template[t].deleted
  /\ Rewritten(t, Following(t, template[t].key, content))
  /\ UNCHANGED <<config, agent, registry, pending, overtaken>>

\* As a bug: the unique index leaves deleted rows out.
UpdateTemplate_LiveKeys(t, key, content) ==
  /\ Counted
  /\ ~template[t].deleted
  /\ \A u \in Holders(key) : u = t \/ template[u].deleted
  /\ Rewritten(t, Following(t, key, content))
  /\ UNCHANGED <<config, agent, registry, pending, overtaken>>

\* The keys of all rows, deleted ones too, are unique.
UpdateTemplate(t, key, content) ==
  /\ Counted
  /\ ~template[t].deleted
  /\ Holders(key) \subseteq {t}
  /\ Rewritten(t, Following(t, key, content))
  /\ UNCHANGED <<config, agent, registry, pending, overtaken>>

RestoreRevision(t, r) ==
  /\ Counted
  /\ ~template[t].deleted
  /\ Rewritten(t, Following(t, template[t].key, r.content))
  /\ UNCHANGED <<config, agent, registry, pending, overtaken>>

\* Restoring the default looks the default up by the key it read first ...
RestoreRead(c, t) ==
  /\ Counted
  /\ pending[c] = Idle
  /\ ~template[t].deleted
  /\ template[t].key \in AgentTypes
  /\ pending' = [pending EXCEPT ![c] =
       [kind |-> "restore", id |-> t, content |-> DefaultOf(template[t].key)]]
  /\ UNCHANGED <<config, agent, prompts, registry, overtaken>>

\* ... and writes it into the row as it is by then.
RestoreWrite(c) ==
  LET p == pending[c]
  IN  /\ p.kind = "restore"
      /\ IF template[p.id].deleted THEN UNCHANGED prompts
         ELSE Rewritten(p.id, Following(p.id, template[p.id].key, p.content))
      /\ pending' = [pending EXCEPT ![c] = Idle]
      /\ UNCHANGED <<config, agent, registry, overtaken, ops>>

DeleteRead(c, t) ==
  /\ Counted
  /\ pending[c] = Idle
  /\ ~template[t].deleted
  /\ pending' = [pending EXCEPT ![c] = [kind |-> "delete", id |-> t]]
  /\ UNCHANGED <<config, agent, prompts, registry, overtaken>>

\* The update names the row only: what happened to it since does not matter.
DeleteWrite(c) ==
  /\ pending[c].kind = "delete"
  /\ template' = [template EXCEPT ![pending[c].id].deleted = TRUE]
  /\ pending' = [pending EXCEPT ![c] = Idle]
  /\ UNCHANGED <<config, agent, revision, registry, overtaken, ops>>

(***************************************************************************)
(* The skill registry.                                                     *)
(***************************************************************************)
VersionsOf(type) == {v \in DOMAIN version : version[v].skill = type}

CreateVersion(type) ==
  /\ Counted
  /\ ~skill[type].archived
  /\ version' = Append(version, [skill |-> type,
                                 number |-> Max({version[v].number : v \in VersionsOf(type)} \union {0}) + 1])
  /\ UNCHANGED <<config, agent, prompts, skill, publication, pending, overtaken>>

\* Publishing brings an archived skill back.
SetPublished(type, v, action) ==
  /\ Counted
  /\ v \in VersionsOf(type)
  /\ skill' = [skill EXCEPT ![type].published = v, ![type].archived = FALSE]
  /\ publication' = Append(publication, [skill |-> type, action |-> action, version |-> v])
  /\ UNCHANGED <<config, agent, prompts, version, pending, overtaken>>

Archive(type) ==
  /\ Counted
  /\ VersionsOf(type) # {} /\ ~skill[type].archived
  /\ skill' = [skill EXCEPT ![type].published = NoVersion, ![type].archived = TRUE]
  /\ publication' = Append(publication, [skill |-> type, action |-> "archive", version |-> NoVersion])
  /\ UNCHANGED <<config, agent, prompts, version, pending, overtaken>>

(***************************************************************************)
(* The next-state relation.                                                *)
(***************************************************************************)
ConfigNext ==
  \/ \E type \in ServiceTypes, ident \in Idents \ {Mock}, default, active \in BOOLEAN :
       CreateConfig(type, ident, default, active)
  \/ \E c \in Clients, id \in DOMAIN config, patch \in Patches : UpdateRead(c, id, patch)
  \/ \E c \in Clients : UpdateWrite(c)
  \/ \E id \in DOMAIN config : DeleteConfig(id)

AgentNext ==
  \/ \E type \in AgentTypes, body \in AgentBodies : UpsertAgent(type, body)
  \/ \E id \in DOMAIN agent, body \in AgentBodies : UpdateAgent(id, body)
  \/ \E id \in DOMAIN agent : DeleteAgent(id)

BundleNext ==
  \/ \E c \in Clients, bundle \in Bundles, withAgents \in BOOLEAN : PreviewConfigs(c, bundle, withAgents)
  \/ \E c \in Clients : PreviewAgents(c) \/ ApplyBundle(c) \/ RefuseBundle(c)

TemplateNext ==
  \/ \E key \in Keys, content \in Contents : CreateTemplate(key, content)
  \/ \E t \in DOMAIN template, content \in Contents : ReviveTemplate(t, content)
  \/ \E t \in DOMAIN template, key \in Keys, content \in Contents : UpdateTemplate(t, key, content)
  \/ \E t \in DOMAIN template : \E r \in ToSet(revision[t]) : RestoreRevision(t, r)
  \/ \E c \in Clients, t \in DOMAIN template : RestoreRead(c, t) \/ DeleteRead(c, t)
  \/ \E c \in Clients : RestoreWrite(c) \/ DeleteWrite(c)

SkillNext ==
  \/ \E type \in AgentTypes : CreateVersion(type) \/ Archive(type)
  \/ \E type \in AgentTypes, v \in DOMAIN version, action \in {"publish", "rollback"} :
       SetPublished(type, v, action)

Next == ConfigNext \/ AgentNext \/ BundleNext \/ TemplateNext \/ SkillNext \/ Restart

Spec == Init /\ [][Next]_vars

(***************************************************************************)
(* Properties.                                                             *)
(***************************************************************************)
Texts == Contents \union {DefaultOf(key) : key \in Keys}

\* Every row has the columns of its table, and every reference names a row.
SettingsTypeOK ==
  /\ \A i \in DOMAIN config :
       \/ config[i] = Gone
       \/ config[i] \in Configs
  /\ \A i \in DOMAIN agent :
       agent[i] \in [type : AgentTypes, model : Idents \union {NoContent},
                    prompt : Contents \union {NoContent}, active : BOOLEAN, deleted : BOOLEAN]
  /\ DOMAIN revision = DOMAIN template
  /\ \A t \in DOMAIN template :
       template[t] \in [key : Keys, content : Texts, version : Nat \ {0}, deleted : BOOLEAN]
  /\ \A t, u \in DOMAIN template : template[t].key = template[u].key => t = u
  /\ skill \in [AgentTypes -> [published : {NoVersion} \union DOMAIN version, archived : BOOLEAN]]
  /\ \A v \in DOMAIN version : version[v] \in [skill : AgentTypes, number : Nat \ {0}]
  /\ overtaken \in BOOLEAN /\ ops \in 0..MaxOps

\* A service type has at most one default, and a default is active ("default AI config must be
\* active", settings.go:185).  Two concurrent updates break it: updateAIConfig decides by a row
\* that it read before its lock.
SoundDefaults ==
  /\ \A i \in DOMAIN config : config[i].default => config[i].active
  /\ \A type \in ServiceTypes :
       Cardinality({i \in OfType(config, type) : config[i].default}) <= 1

\* Whatever creates, updates, bundles, deletions and restarts do, only an update that was written
\* over a row changed since it was read breaks the soundness of the defaults.
DefaultsAreSound == SoundDefaults \/ overtaken

\* An agent has at most one config that is not deleted, however deletions, the rows that a boot adds
\* beside a deleted one, and the upserts and bundles that bring a deleted row back follow each other.
OneLiveAgentConfig ==
  \A i, j \in DOMAIN agent :
    agent[i].type = agent[j].type /\ ~agent[i].deleted /\ ~agent[j].deleted => i = j

\* What generation and agents look up is found, and is one row.
ConfigurationsAreSound == DefaultsAreSound /\ OneLiveAgentConfig

\* What a bundle changes is what its preview named (service_bundles.go:147-153): a config that it
\* touches was reused or lost its default there, although the preview was two reads without a lock.
BundleChangesOnlyWhatItNamed ==
  [][\A c \in Clients :
       /\ pending[c].kind = "token" /\ pending'[c] = Idle
       /\ config' # config
       => \A i \in DOMAIN config :
            config'[i] # config[i] => i \in Named(pending[c].configs, pending[c].bundle)]_vars

\* The revisions of a template are numbered without a gap up to its version, and the last one holds
\* what the template says, through renames, restores, deletions and revivals.
RevisionsTellTheTemplate ==
  \A t \in DOMAIN template :
    /\ \A n \in DOMAIN revision[t] : revision[t][n].version = n
    /\ Len(revision[t]) = template[t].version
    /\ Last(revision[t]) = Recorded(template[t])

\* The last publication of a skill says whether it is archived and which version is published, the
\* published version is one of the skill's own, and the versions of a skill are numbered in order.
PublicationsTellTheSkill ==
  \A type \in AgentTypes :
    LET log == {n \in DOMAIN publication : publication[n].skill = type}
    IN  /\ skill[type].published = (IF log = {} THEN NoVersion ELSE publication[Max(log)].version)
        /\ skill[type].archived <=> (log # {} /\ publication[Max(log)].action = "archive")
        /\ skill[type].published \in VersionsOf(type) \union {NoVersion}
        /\ \A v \in VersionsOf(type) :
             version[v].number = Cardinality({w \in VersionsOf(type) : w <= v})

\* The histories that templates and skills are restored from tell how they came to be.
HistoriesTellTheState == RevisionsTellTheTemplate /\ PublicationsTellTheSkill
=============================================================================
