--------------------------- MODULE SettingsProofs ---------------------------
(***************************************************************************)
(* Proofs about Settings.tla, for any service types, agents, identities,   *)
(* keys, texts, patches, bundles, clients and number of requests.          *)
(*                                                                         *)
(* The invariant has a part for each table.  ConfigInv says that the       *)
(* defaults are sound unless an update was overtaken; it needs PendingInv, *)
(* which says what an update under way has decided by the row that it      *)
(* read.  AgentInv says that only the last config of an agent may live,    *)
(* which a boot relies on when it adds one beside a deleted one.           *)
(* PromptInv pairs each template with its log, and RegistryInv each skill  *)
(* with the log of its publications and the count of its versions.         *)
(* Lemmas about the helpers (Added, Undefaulted, Unset, Placed, WithModel, *)
(* the seeds) come first, then one step lemma for each part.               *)
(***************************************************************************)
EXTENDS Settings, FiniteSetTheorems, SequenceTheorems, WellFoundedInduction, TLAPS

ConfigRows == Configs \union {Gone}

AgentRows == [type : AgentTypes, model : Idents \union {NoContent},
              prompt : Contents \union {NoContent}, active : BOOLEAN, deleted : BOOLEAN]

TemplateRows == [key : Keys, content : Texts, version : Nat \ {0}, deleted : BOOLEAN]

Revisions == [version : Nat \ {0}, key : Keys, content : Texts]

\* A default is active, and no other config of its type is one.
Sound(rows) ==
  /\ \A i \in DOMAIN rows : rows[i].default => rows[i].active
  /\ \A i, j \in DOMAIN rows :
       rows[i].default /\ rows[j].default /\ rows[i].type = rows[j].type => i = j

ConfigInv == config \in Seq(ConfigRows) /\ overtaken \in BOOLEAN /\ (overtaken \/ Sound(config))

\* A live config of an agent is the last one of that agent: the one an upsert takes.
LastLives(rows) ==
  \A i, j \in DOMAIN rows : rows[i].type = rows[j].type /\ ~rows[i].deleted => j <= i

AgentInv == agent \in Seq(AgentRows) /\ LastLives(agent)

\* The log of a template numbers its revisions without a gap and ends with what the template says.
Tells(row, log) ==
  /\ \A n \in DOMAIN log : log[n].version = n
  /\ Len(log) = row.version
  /\ Last(log) = Recorded(row)

PromptsHold(rows, logs) ==
  /\ rows \in Seq(TemplateRows) /\ logs \in Seq(Seq(Revisions))
  /\ Len(logs) = Len(rows)
  /\ \A t, u \in DOMAIN rows : rows[t].key = rows[u].key => t = u
  /\ \A t \in DOMAIN rows : Tells(rows[t], logs[t])

PromptInv == PromptsHold(template, revision)

Publications == [skill : AgentTypes, action : {"publish", "rollback", "archive"}, version : Nat]

LogOf(type) == {n \in DOMAIN publication : publication[n].skill = type}

\* The last publication of a skill tells what is published, and its versions count themselves.
LastTells(type) ==
  /\ skill[type].published =
       (IF LogOf(type) = {} THEN NoVersion ELSE publication[Max(LogOf(type))].version)
  /\ skill[type].archived <=> (LogOf(type) # {} /\ publication[Max(LogOf(type))].action = "archive")

VersionsCount(type) ==
  \A v \in VersionsOf(type) :
    version[v].number = Cardinality({w \in VersionsOf(type) : w <= v})

RegistryInv ==
  /\ skill \in [AgentTypes -> [published : {NoVersion} \union DOMAIN version, archived : BOOLEAN]]
  /\ version \in Seq([skill : AgentTypes, number : Nat \ {0}])
  /\ publication \in Seq(Publications)
  /\ \A type \in AgentTypes :
       /\ LastTells(type) /\ VersionsCount(type)
       /\ skill[type].published \in VersionsOf(type) \union {NoVersion}

\* What an update is about to write, if its row is still what it read: a default that it writes is
\* active, and the update takes the default from the other configs of its type.
UpdateHolds(p) ==
  /\ p.id \in DOMAIN config /\ p.read \in Configs
  /\ \A row \in Configs : Over(p.patch, row) \in Configs
  /\ p.clears = {} \/ \E type \in ServiceTypes : p.clears = {type}
  /\ Over(p.patch, p.read).default =>
       Over(p.patch, p.read).active /\ p.clears = {Over(p.patch, p.read).type}

PendingHolds(p) ==
  \/ p = Idle
  \/ p.kind = "update" /\ UpdateHolds(p)
  \/ p.kind \in {"preview", "token"} /\ p.bundle \in Bundles /\ p.withAgents \in BOOLEAN
  \/ p.kind = "restore" /\ p.id \in DOMAIN template /\ p.content \in Texts
  \/ p.kind = "delete" /\ p.id \in DOMAIN template

PendingInv == DOMAIN pending = Clients /\ \A c \in Clients : PendingHolds(pending[c])

SettingsInv ==
  ConfigInv /\ AgentInv /\ PromptInv /\ RegistryInv /\ PendingInv /\ ops \in 0..MaxOps
-----------------------------------------------------------------------------
(* Numbers: a set that is not empty has a least one, and a greatest one if *)
(* it is bounded.  The library's induction takes the formula as a          *)
(* parameter, which the provers cannot instantiate; its least elements of  *)
(* well-founded sets serve instead.                                        *)

LEMMA LeastNumber ==
  ASSUME NEW S \in SUBSET Nat, S # {}
  PROVE  \E m \in S : \A n \in S : m <= n
<1> DEFINE Below == {p \in Nat \X Nat : p[1] < p[2]}
<1>1. IsWellFoundedOn(Below, Nat)
  BY NatLessThanWellFounded DEF OpToRel
<1>2. \E x \in S : \A y \in S : ~ (<<y, x>> \in Below)
  <2> HIDE DEF Below
  <2> QED
    BY <1>1, WFMin
<1>3. PICK x \in S : \A y \in S : ~ (<<y, x>> \in Below)
  BY <1>2
<1>4. ASSUME NEW n \in S, n < x PROVE FALSE
  <2>1. <<n, x>> \in Nat \X Nat
    OBVIOUS
  <2> QED
    BY <2>1, <1>3, <1>4
<1> QED
  BY <1>3, <1>4

LEMMA MaxOfBounded ==
  ASSUME NEW n \in Nat, NEW S \in SUBSET (0..n), S # {}
  PROVE  Max(S) \in S /\ \A x \in S : Max(S) >= x
<1> DEFINE Bounds == {m \in Nat : \A x \in S : x <= m}
<1>1. Bounds \in SUBSET Nat /\ n \in Bounds
  OBVIOUS
<1>2. \E m \in Bounds : \A b \in Bounds : m <= b
  <2> HIDE DEF Bounds
  <2> QED
    BY <1>1, LeastNumber
<1>3. PICK m \in Bounds : \A b \in Bounds : m <= b
  BY <1>2
<1>4. m \in S
  <2>1. SUFFICES ASSUME m \notin S PROVE FALSE
    OBVIOUS
  <2>2. \A x \in S : x <= m - 1
    <3>1. \A x \in S : x \in Nat /\ x <= m /\ x # m
      BY <2>1, <1>3
    <3> QED
      BY <3>1, <1>3
  <2>3. m - 1 \in Nat
    <3>1. PICK x \in S : TRUE
      OBVIOUS
    <3>2. x \in Nat /\ x <= m - 1
      BY <2>2
    <3> QED
      BY <3>2, <1>3
  <2>4. m - 1 \in Bounds
    BY <2>2, <2>3
  <2> QED
    BY <2>4, <1>3
<1>5. \E x \in S : \A y \in S : x >= y
  BY <1>3, <1>4
<1> QED
  BY <1>5 DEF Max

LEMMA MinOfNumbers ==
  ASSUME NEW S \in SUBSET Nat, S # {}
  PROVE  Min(S) \in S
<1>1. PICK m \in S : \A n \in S : m <= n
  BY LeastNumber
<1> QED
  BY <1>1 DEF Min

-----------------------------------------------------------------------------
(* Tables.                                                                 *)

\* An enumeration of a finite set reaches members of it, each at most once.
LEMMA SetToSeqFacts ==
  ASSUME NEW D, IsFiniteSet(D)
  PROVE  /\ Cardinality(D) \in Nat
         /\ SetToSeq(D) \in [1..Cardinality(D) -> D]
         /\ \A m, n \in 1..Cardinality(D) : SetToSeq(D)[m] = SetToSeq(D)[n] => m = n
<1>1. Cardinality(D) \in Nat /\ ExistsBijection(1..Cardinality(D), D)
  BY FS_CardinalityType
<1>2. PICK f \in [1..Cardinality(D) -> D] : \A m, n \in 1..Cardinality(D) : f[m] = f[n] => m = n
  BY <1>1 DEF ExistsBijection, Bijection, Injection, IsInjective
<1>3. IsInjective(f)
  BY <1>2 DEF IsInjective
<1>4. SetToSeq(D) \in [1..Cardinality(D) -> D] /\ IsInjective(SetToSeq(D))
  BY <1>2, <1>3 DEF SetToSeq
<1> QED
  BY <1>1, <1>4 DEF IsInjective

\* Adding rows keeps those that are there; each new one belongs to a type of its own.
LEMMA AddedFacts ==
  ASSUME NEW S, NEW rows \in Seq(S), NEW D, IsFiniteSet(D), NEW new \in [D -> S]
  PROVE  /\ Added(rows, new) \in Seq(S)
         /\ Cardinality(D) \in Nat
         /\ Len(Added(rows, new)) = Len(rows) + Cardinality(D)
         /\ \A i \in 1..Len(rows) : Added(rows, new)[i] = rows[i]
         /\ \A n \in 1..Cardinality(D) :
              /\ SetToSeq(D)[n] \in D
              /\ Added(rows, new)[Len(rows) + n] = new[SetToSeq(D)[n]]
         /\ \A m, n \in 1..Cardinality(D) : SetToSeq(D)[m] = SetToSeq(D)[n] => m = n
<1> DEFINE order == SetToSeq(D)
           tail == [n \in 1..Cardinality(D) |-> new[order[n]]]
<1>1. /\ Cardinality(D) \in Nat
      /\ order \in [1..Cardinality(D) -> D]
      /\ \A m, n \in 1..Cardinality(D) : order[m] = order[n] => m = n
  BY SetToSeqFacts
<1>2. Added(rows, new) = rows \o tail
  BY DEF Added
<1> HIDE DEF order
<1>3. tail \in Seq(S) /\ Len(tail) = Cardinality(D)
  BY <1>1
<1>4. \A n \in 1..Cardinality(D) : tail[n] = new[order[n]] /\ order[n] \in D
  BY <1>1
<1> HIDE DEF tail
<1>5. /\ rows \o tail \in Seq(S)
      /\ Len(rows \o tail) = Len(rows) + Cardinality(D)
      /\ \A i \in 1..Len(rows) : (rows \o tail)[i] = rows[i]
      /\ \A n \in 1..Cardinality(D) : (rows \o tail)[Len(rows) + n] = tail[n]
  BY <1>1, <1>3
<1> QED
  BY <1>1, <1>2, <1>4, <1>5 DEF order

-----------------------------------------------------------------------------
(* Service configs.                                                        *)

LEMMA ConstantFacts ==
  /\ Mock \in Idents /\ "none" \notin ServiceTypes /\ Text \in ServiceTypes
  /\ IsFiniteSet(ServiceTypes) /\ IsFiniteSet(AgentTypes) /\ AgentTypes \subseteq Keys
BY SettingsAssumption

LEMMA GoneIsARow ==
  Gone \in ConfigRows /\ Gone.default = FALSE /\ Gone.type = "none" /\ Gone.type \notin ServiceTypes
BY ConstantFacts DEF Gone, ConfigRows

LEMMA ConfigFacts ==
  ASSUME NEW row \in Configs
  PROVE  /\ row.default \in BOOLEAN /\ row.active \in BOOLEAN
         /\ row.type \in ServiceTypes /\ row.ident \in Idents
         /\ row # Gone
<1>1. row.type \in ServiceTypes
  BY DEF Configs
<1>2. row # Gone
  BY <1>1, GoneIsARow
<1> QED
  BY <1>1, <1>2 DEF Configs

LEMMA ConfigRowFacts ==
  ASSUME NEW row \in ConfigRows
  PROVE  /\ row.default \in BOOLEAN
         /\ row # Gone => row \in Configs
         /\ row \in Configs => row # Gone /\ row.type \in ServiceTypes
         /\ row.default => row \in Configs
<1>1. CASE row \in Configs
  BY <1>1, ConfigFacts
<1>2. CASE row = Gone
  BY <1>2, ConfigFacts, GoneIsARow
<1> QED
  BY <1>1, <1>2 DEF ConfigRows

\* Taking the default from a row leaves the rest of it alone; a deleted row has none.
LEMMA ClearedRow ==
  ASSUME NEW row \in ConfigRows
  PROVE  /\ [row EXCEPT !.default = FALSE] \in ConfigRows
         /\ ~[row EXCEPT !.default = FALSE].default
         /\ [row EXCEPT !.default = FALSE].type = row.type
         /\ row \in Configs => [row EXCEPT !.default = FALSE] \in Configs
<1>1. CASE row \in Configs
  <2>1. [row EXCEPT !.default = FALSE] \in Configs
    BY <1>1 DEF Configs
  <2>2. [row EXCEPT !.default = FALSE].default = FALSE
    BY <1>1 DEF Configs
  <2>3. [row EXCEPT !.default = FALSE].type = row.type
    BY <1>1 DEF Configs
  <2> QED
    BY <2>1, <2>2, <2>3 DEF ConfigRows
<1>2. CASE row = Gone
  <2>1. [row EXCEPT !.default = FALSE] = Gone
    <3> DEFINE G == [type : {"none"}, ident : {Mock}, default : {FALSE}, active : {FALSE}]
    <3>1. Gone \in G /\ \A x \in G : x = Gone
      <4>1. Gone \in G
        BY DEF Gone
      <4>2. ASSUME NEW x \in G PROVE x = Gone
        <5>1. x = [type |-> x.type, ident |-> x.ident, default |-> x.default, active |-> x.active]
          OBVIOUS
        <5>2. x.type = "none" /\ x.ident = Mock /\ x.default = FALSE /\ x.active = FALSE
          OBVIOUS
        <5> HIDE DEF G
        <5> QED
          BY <5>1, <5>2 DEF Gone
      <4> QED
        BY <4>1, <4>2
    <3>2. \A x \in G : [x EXCEPT !.default = FALSE] \in G
      OBVIOUS
    <3> HIDE DEF G
    <3> QED
      BY <1>2, <3>1, <3>2
  <2> QED
    BY <1>2, <2>1, GoneIsARow, ConfigFacts
<1> QED
  BY <1>1, <1>2 DEF ConfigRows

LEMMA NewConfigTyped ==
  ASSUME NEW type \in ServiceTypes, NEW item \in Services
  PROVE  /\ NewConfig(type, item) \in Configs
         /\ NewConfig(type, item).type = type
         /\ NewConfig(type, item).default = item.default
         /\ NewConfig(type, item).active = item.active
BY DEF NewConfig, Configs, Services

LEMMA UndefaultedFacts ==
  ASSUME NEW rows \in Seq(ConfigRows), NEW type, NEW spared
  PROVE  /\ Undefaulted(rows, type, spared) \in Seq(ConfigRows)
         /\ Len(Undefaulted(rows, type, spared)) = Len(rows)
         /\ \A i \in 1..Len(rows) :
              Undefaulted(rows, type, spared)[i] =
                IF rows[i].type = type /\ i # spared THEN [rows[i] EXCEPT !.default = FALSE] ELSE rows[i]
<1>1. \A i \in 1..Len(rows) : rows[i] \in ConfigRows
  OBVIOUS
<1>2. \A i \in 1..Len(rows) : [rows[i] EXCEPT !.default = FALSE] \in ConfigRows
  BY <1>1, ClearedRow
<1>3. DOMAIN rows = 1..Len(rows) /\ Len(rows) \in Nat
  OBVIOUS
<1> QED
  BY <1>1, <1>2, <1>3 DEF Undefaulted

\* The rows that keep a default after it was taken from those of a type.
LEMMA UndefaultedDefaults ==
  ASSUME NEW rows \in Seq(ConfigRows), NEW type, NEW spared, NEW i \in 1..Len(rows)
  PROVE  /\ Undefaulted(rows, type, spared)[i] \in ConfigRows
         /\ Undefaulted(rows, type, spared)[i].type = rows[i].type
         /\ Undefaulted(rows, type, spared)[i].default =>
              rows[i].default /\ (rows[i].type = type => i = spared)
                /\ Undefaulted(rows, type, spared)[i] = rows[i]
<1>1. rows[i] \in ConfigRows
  OBVIOUS
<1>2. Undefaulted(rows, type, spared)[i] =
        IF rows[i].type = type /\ i # spared THEN [rows[i] EXCEPT !.default = FALSE] ELSE rows[i]
  BY UndefaultedFacts
<1>3. CASE rows[i].type = type /\ i # spared
  BY <1>1, <1>2, <1>3, ClearedRow
<1>4. CASE ~(rows[i].type = type /\ i # spared)
  BY <1>1, <1>2, <1>4
<1> QED
  BY <1>3, <1>4

\* What seeding adds is never a default.
LEMMA SeededConfigsFacts ==
  ASSUME NEW rows \in Seq(ConfigRows)
  PROVE  /\ SeededConfigs(rows) \in Seq(ConfigRows)
         /\ Len(SeededConfigs(rows)) >= Len(rows)
         /\ \A i \in 1..Len(rows) : SeededConfigs(rows)[i] = rows[i]
         /\ Sound(rows) => Sound(SeededConfigs(rows))
<1> DEFINE missing == {type \in ServiceTypes :
                         \A i \in DOMAIN rows : rows[i].type = type => rows[i].ident # Mock}
           mock == [ident |-> Mock, default |-> FALSE, active |-> TRUE]
           new == [type \in missing |-> NewConfig(type, mock)]
<1>1. IsFiniteSet(missing)
  BY ConstantFacts, FS_Subset
<1>2. \A type \in missing : NewConfig(type, mock) \in ConfigRows /\ ~NewConfig(type, mock).default
  <2>1. mock \in Services
    BY ConstantFacts DEF Services
  <2>2. ~mock.default
    OBVIOUS
  <2> HIDE DEF mock
  <2> QED
    BY <2>1, <2>2, NewConfigTyped DEF ConfigRows
<1>3. SeededConfigs(rows) = Added(rows, new)
  BY DEF SeededConfigs
<1>4. new \in [missing -> ConfigRows] /\ \A type \in missing : ~new[type].default
  BY <1>2
<1> HIDE DEF missing, new
<1>5. /\ Added(rows, new) \in Seq(ConfigRows)
      /\ Cardinality(missing) \in Nat
      /\ Len(Added(rows, new)) = Len(rows) + Cardinality(missing)
      /\ \A i \in 1..Len(rows) : Added(rows, new)[i] = rows[i]
      /\ \A n \in 1..Cardinality(missing) :
           /\ SetToSeq(missing)[n] \in missing
           /\ Added(rows, new)[Len(rows) + n] = new[SetToSeq(missing)[n]]
  BY <1>1, <1>4, AddedFacts
<1>6. ASSUME NEW i \in DOMAIN Added(rows, new), Added(rows, new)[i].default
      PROVE  i \in DOMAIN rows /\ Added(rows, new)[i] = rows[i]
  <2>1. i \in 1..(Len(rows) + Cardinality(missing)) /\ Len(rows) \in Nat
    BY <1>5
  <2>2. CASE i > Len(rows)
    <3>1. i - Len(rows) \in 1..Cardinality(missing) /\ Len(rows) + (i - Len(rows)) = i
      BY <2>1, <2>2, <1>5
    <3>2. Added(rows, new)[i] = new[SetToSeq(missing)[i - Len(rows)]]
      BY <3>1, <1>5
    <3> QED
      BY <3>1, <3>2, <1>5, <1>4, <1>6
  <2>3. CASE i <= Len(rows)
    BY <2>1, <2>3, <1>5
  <2> QED
    BY <2>1, <2>2, <2>3
<1>7. Sound(rows) => Sound(Added(rows, new))
  BY <1>6 DEF Sound
<1> QED
  BY <1>3, <1>5, <1>7

LEMMA ClearingNoDefault ==
  ASSUME NEW row \in Configs, ~row.default
  PROVE  [row EXCEPT !.default = FALSE] = row
<1> DEFINE cleared == [row EXCEPT !.default = FALSE]
<1>1. cleared \in Configs
  BY DEF Configs
<1>2. /\ cleared.type = row.type /\ cleared.ident = row.ident
      /\ cleared.default = FALSE /\ cleared.active = row.active /\ row.default = FALSE
  BY DEF Configs
<1> HIDE DEF cleared
<1>3. \A x \in Configs :
        x = [type |-> x.type, ident |-> x.ident, default |-> x.default, active |-> x.active]
  BY DEF Configs
<1>4. cleared = row
  BY <1>1, <1>2, <1>3
<1> QED
  BY <1>4 DEF cleared

\* A service of a bundle laid over a config of its type.
LEMMA OverService ==
  ASSUME NEW row \in Configs, NEW item \in Services
  PROVE  /\ Over(item, row) \in Configs
         /\ Over(item, row).type = row.type
         /\ Over(item, row).default = item.default
         /\ Over(item, row).active = item.active
<1>1. DOMAIN row = {"type", "ident", "default", "active"}
  BY DEF Configs
<1>2. DOMAIN item = {"ident", "default", "active"}
  BY DEF Services
<1>3. /\ row.type \in ServiceTypes
      /\ item.ident \in Idents /\ item.default \in BOOLEAN /\ item.active \in BOOLEAN
  BY DEF Configs, Services
<1>4. Over(item, row) =
        [type |-> row.type, ident |-> item.ident, default |-> item.default, active |-> item.active]
  BY <1>1, <1>2 DEF Over
<1> QED
  BY <1>3, <1>4 DEF Configs

LEMMA BundleFacts ==
  ASSUME NEW bundle \in Bundles, NEW type \in ServiceTypes
  PROVE  bundle[type] \in Services /\ (bundle[type].default => bundle[type].active)
BY SettingsAssumption

\* What a bundle makes of a row that is there.
PlacedRow(rows, bundle, i) ==
  LET Reusable == Matching(rows, rows[i].type, bundle[rows[i].type])
  IN  IF rows[i].type \notin ServiceTypes THEN rows[i]
      ELSE IF Reusable # {} /\ i = Max(Reusable) THEN Over(bundle[rows[i].type], rows[i])
      ELSE IF bundle[rows[i].type].default THEN [rows[i] EXCEPT !.default = FALSE]
      ELSE rows[i]

\* It keeps its type; if it is a default afterwards the bundle says so and reuses it, or says
\* nothing and it was one before; and it changes only if the preview names it.
LEMMA PlacedRowFacts ==
  ASSUME NEW rows \in Seq(ConfigRows), NEW bundle \in Bundles, NEW i \in 1..Len(rows)
  PROVE  LET row == PlacedRow(rows, bundle, i)
             type == rows[i].type
             reusable == Matching(rows, type, bundle[type])
         IN  /\ row \in ConfigRows
             /\ row.type = type
             /\ row.default =>
                  /\ type \in ServiceTypes
                  /\ \/ bundle[type].default /\ row.active /\ reusable # {} /\ i = Max(reusable)
                     \/ ~bundle[type].default /\ row = rows[i]
             /\ row # rows[i] => i \in Named(rows, bundle)
<1> DEFINE row == PlacedRow(rows, bundle, i)
           type == rows[i].type
           reusable == Matching(rows, type, bundle[type])
           Kept == /\ row \in ConfigRows
                   /\ row.type = type
                   /\ row.default =>
                        /\ type \in ServiceTypes
                        /\ \/ bundle[type].default /\ row.active /\ reusable # {} /\ i = Max(reusable)
                           \/ ~bundle[type].default /\ row = rows[i]
                   /\ row # rows[i] => i \in Named(rows, bundle)
<1> SUFFICES Kept
  OBVIOUS
<1>1. rows[i] \in ConfigRows /\ i \in DOMAIN rows /\ DOMAIN rows = 1..Len(rows) /\ Len(rows) \in Nat
  OBVIOUS
<1>2. CASE type \notin ServiceTypes
  <2>1. row = rows[i]
    BY <1>2 DEF PlacedRow
  <2>2. ~rows[i].default
    BY <1>1, <1>2, ConfigRowFacts
  <2> QED
    BY <1>1, <2>1, <2>2
<1>3. CASE type \in ServiceTypes
  <2>1. rows[i] \in Configs
    BY <1>1, <1>3, GoneIsARow DEF ConfigRows
  <2>2. bundle[type] \in Services /\ (bundle[type].default => bundle[type].active)
    BY <1>3, BundleFacts
  <2>3. CASE reusable # {} /\ i = Max(reusable)
    <3>1. row = Over(bundle[type], rows[i])
      BY <1>3, <2>3 DEF PlacedRow
    <3>2. /\ row \in Configs /\ row.type = type /\ row.default = bundle[type].default
          /\ row.active = bundle[type].active
      BY <2>1, <2>2, <3>1, OverService
    <3>3. reusable \in SUBSET (0..Len(rows))
      BY <1>1 DEF Matching
    <3>4. i \in reusable
      <4> HIDE DEF reusable
      <4> QED
        BY <1>1, <2>3, <3>3, MaxOfBounded
    <3>5. i \in Named(rows, bundle)
      BY <1>3, <3>4 DEF Named
    <3> HIDE DEF row, reusable
    <3> QED
      BY <1>3, <2>2, <2>3, <3>2, <3>5 DEF ConfigRows
  <2>4. CASE ~(reusable # {} /\ i = Max(reusable)) /\ bundle[type].default
    <3>1. row = [rows[i] EXCEPT !.default = FALSE]
      BY <1>3, <2>4 DEF PlacedRow
    <3>2. row \in ConfigRows /\ ~row.default /\ row.type = type
      BY <1>1, <3>1, ClearedRow
    <3>3. row # rows[i] => rows[i].default
      BY <2>1, <3>1, ClearingNoDefault
    <3>4. rows[i].default => i \in Named(rows, bundle)
      BY <1>1, <1>3, <2>4 DEF Named, OfType
    <3> HIDE DEF row
    <3> QED
      BY <3>2, <3>3, <3>4
  <2>5. CASE ~(reusable # {} /\ i = Max(reusable)) /\ ~bundle[type].default
    <3>1. row = rows[i]
      BY <1>3, <2>5 DEF PlacedRow
    <3> QED
      BY <1>1, <1>3, <2>5, <3>1
  <2> QED
    BY <2>3, <2>4, <2>5
<1> QED
  BY <1>2, <1>3

\* Applying a bundle keeps the defaults sound, and touches only what its preview names.
LEMMA PlacedFacts ==
  ASSUME NEW rows \in Seq(ConfigRows), NEW bundle \in Bundles
  PROVE  /\ Placed(rows, bundle) \in Seq(ConfigRows)
         /\ Len(Placed(rows, bundle)) >= Len(rows)
         /\ Sound(rows) => Sound(Placed(rows, bundle))
         /\ \A i \in DOMAIN rows : Placed(rows, bundle)[i] # rows[i] => i \in Named(rows, bundle)
<1> DEFINE mapped == [i \in DOMAIN rows |-> PlacedRow(rows, bundle, i)]
           missing == {t \in ServiceTypes : Matching(rows, t, bundle[t]) = {}}
           new == [type \in missing |-> NewConfig(type, bundle[type])]
           result == Placed(rows, bundle)
           place == SetToSeq(missing)
           n == Len(rows)
<1>1. DOMAIN rows = 1..n /\ n \in Nat
  OBVIOUS
<1>2. mapped \in Seq(ConfigRows) /\ Len(mapped) = n /\ \A i \in 1..n : mapped[i] = PlacedRow(rows, bundle, i)
  <2>1. \A i \in 1..n : PlacedRow(rows, bundle, i) \in ConfigRows
    BY PlacedRowFacts
  <2> QED
    BY <1>1, <2>1
<1>3. IsFiniteSet(missing)
  BY ConstantFacts, FS_Subset
<1>4. /\ new \in [missing -> ConfigRows]
      /\ \A t \in missing : /\ t \in ServiceTypes /\ new[t].type = t
                            /\ new[t].default = bundle[t].default /\ new[t].active = bundle[t].active
                            /\ bundle[t].default => bundle[t].active
                            /\ Matching(rows, t, bundle[t]) = {}
  <2>1. \A t \in missing : bundle[t] \in Services /\ (bundle[t].default => bundle[t].active)
    BY BundleFacts
  <2>2. \A t \in missing : /\ NewConfig(t, bundle[t]) \in ConfigRows /\ NewConfig(t, bundle[t]).type = t
                           /\ NewConfig(t, bundle[t]).default = bundle[t].default
                           /\ NewConfig(t, bundle[t]).active = bundle[t].active
    BY <2>1, NewConfigTyped DEF ConfigRows
  <2> QED
    BY <2>1, <2>2
<1>5. result = Added(mapped, new)
  BY DEF Placed, PlacedRow
<1> HIDE DEF mapped, missing, new, place, result
<1>6. /\ result \in Seq(ConfigRows)
      /\ Cardinality(missing) \in Nat
      /\ Len(result) = n + Cardinality(missing)
      /\ \A i \in 1..n : result[i] = PlacedRow(rows, bundle, i)
      /\ \A k \in 1..Cardinality(missing) : place[k] \in missing /\ result[n + k] = new[place[k]]
      /\ \A k, l \in 1..Cardinality(missing) : place[k] = place[l] => k = l
  <2>1. /\ Added(mapped, new) \in Seq(ConfigRows)
        /\ Cardinality(missing) \in Nat
        /\ Len(Added(mapped, new)) = Len(mapped) + Cardinality(missing)
        /\ \A i \in 1..Len(mapped) : Added(mapped, new)[i] = mapped[i]
        /\ \A k \in 1..Cardinality(missing) :
             /\ SetToSeq(missing)[k] \in missing
             /\ Added(mapped, new)[Len(mapped) + k] = new[SetToSeq(missing)[k]]
        /\ \A k, l \in 1..Cardinality(missing) : SetToSeq(missing)[k] = SetToSeq(missing)[l] => k = l
    BY <1>2, <1>3, <1>4, AddedFacts
  <2> QED
    BY <2>1, <1>2, <1>5 DEF place
<1>7. \A i \in DOMAIN result : i \in 1..n \/ (i > n /\ i - n \in 1..Cardinality(missing) /\ n + (i - n) = i)
  BY <1>1, <1>6
<1>8. ASSUME NEW i \in DOMAIN result, result[i].default
      PROVE  LET t == result[i].type
                 reusable == Matching(rows, t, bundle[t])
             IN  \/ /\ bundle[t].default /\ result[i].active
                    /\ \/ i \in 1..n /\ reusable # {} /\ i = Max(reusable)
                       \/ i > n /\ reusable = {} /\ i - n \in 1..Cardinality(missing) /\ place[i - n] = t
                 \/ ~bundle[t].default /\ i \in 1..n /\ result[i] = rows[i]
  <2>1. CASE i \in 1..n
    <3>1. result[i] = PlacedRow(rows, bundle, i)
      BY <2>1, <1>6
    <3> DEFINE t == rows[i].type
               reusable == Matching(rows, t, bundle[t])
    <3>2. /\ result[i].type = t
          /\ \/ bundle[t].default /\ result[i].active /\ reusable # {} /\ i = Max(reusable)
             \/ ~bundle[t].default /\ result[i] = rows[i]
      <4>1. PICK row : row = PlacedRow(rows, bundle, i)
        OBVIOUS
      <4>2. /\ row.type = t
            /\ row.default =>
                 \/ bundle[t].default /\ row.active /\ reusable # {} /\ i = Max(reusable)
                 \/ ~bundle[t].default /\ row = rows[i]
        <5>1. i \in 1..Len(rows)
          BY <2>1
        <5>2. LET of == rows[i].type
                  reused == Matching(rows, of, bundle[of])
              IN  /\ PlacedRow(rows, bundle, i).type = of
                  /\ PlacedRow(rows, bundle, i).default =>
                       \/ /\ bundle[of].default /\ PlacedRow(rows, bundle, i).active
                          /\ reused # {} /\ i = Max(reused)
                       \/ ~bundle[of].default /\ PlacedRow(rows, bundle, i) = rows[i]
          <6> HIDE <1>8, <1>6, <1>7, <1>5, <1>4, <1>3, <1>2
          <6> QED
            BY <5>1, PlacedRowFacts
        <5> QED
          BY <5>2, <4>1
      <4> HIDE DEF t, reusable
      <4> QED
        BY <3>1, <4>1, <4>2, <1>8
    <3> QED
      BY <2>1, <3>2
  <2>2. CASE i > n /\ i - n \in 1..Cardinality(missing) /\ n + (i - n) = i
    <3>1. place[i - n] \in missing /\ result[i] = new[place[i - n]]
      BY <2>2, <1>6
    <3> QED
      BY <2>2, <3>1, <1>4, <1>8
  <2> QED
    BY <1>7, <2>1, <2>2
<1>9. ASSUME Sound(rows) PROVE Sound(result)
  <2>1. ASSUME NEW i \in DOMAIN result, result[i].default PROVE result[i].active
    BY <2>1, <1>1, <1>8, <1>9 DEF Sound
  <2>2. ASSUME NEW i \in DOMAIN result, NEW j \in DOMAIN result,
               result[i].default, result[j].default, result[i].type = result[j].type
        PROVE  i = j
    <3> DEFINE t == result[i].type
               reusable == Matching(rows, t, bundle[t])
    <3>1. CASE bundle[t].default
      <4>1. \/ i \in 1..n /\ reusable # {} /\ i = Max(reusable)
            \/ i > n /\ reusable = {} /\ i - n \in 1..Cardinality(missing) /\ place[i - n] = t
        BY <3>1, <2>2, <1>8
      <4>2. \/ j \in 1..n /\ reusable # {} /\ j = Max(reusable)
            \/ j > n /\ reusable = {} /\ j - n \in 1..Cardinality(missing) /\ place[j - n] = t
        BY <3>1, <2>2, <1>8
      <4>3. i \in Int /\ j \in Int
        BY <1>6
      <4> HIDE DEF t, reusable
      <4>4. CASE reusable # {}
        BY <4>1, <4>2, <4>4
      <4>5. CASE reusable = {}
        <5>1. i - n = j - n
          BY <4>1, <4>2, <4>5, <1>6
        <5> QED
          BY <5>1, <4>3, <1>1
      <4> QED
        BY <4>4, <4>5
    <3>2. CASE ~bundle[t].default
      <4>1. i \in 1..n /\ result[i] = rows[i] /\ j \in 1..n /\ result[j] = rows[j]
        BY <3>2, <2>2, <1>8
      <4> QED
        BY <4>1, <2>2, <1>1, <1>9 DEF Sound
    <3> QED
      BY <3>1, <3>2
  <2> QED
    BY <2>1, <2>2 DEF Sound
<1>10. \A i \in DOMAIN rows : result[i] # rows[i] => i \in Named(rows, bundle)
  BY <1>1, <1>6, PlacedRowFacts
<1>11. Len(result) >= n
  BY <1>1, <1>6
<1> QED
  BY <1>6, <1>9, <1>10, <1>11 DEF result

\* What a lookup by type or a default relies on survives any of the steps that write configs.
ConfigKept == ConfigInv' /\ Len(config') >= Len(config)

LEMMA CreateConfigKeeps ==
  ASSUME ConfigInv, NEW type \in ServiceTypes, NEW ident \in Idents,
         NEW default \in BOOLEAN, NEW active \in BOOLEAN, CreateConfig(type, ident, default, active)
  PROVE  ConfigKept
<1> DEFINE item == [ident |-> ident, default |-> default, active |-> active]
           new == NewConfig(type, item)
           kept == IF default THEN Undefaulted(config, type, 0) ELSE config
           n == Len(config)
<1>1. config' = Append(kept, new) /\ overtaken' = overtaken /\ (default => active)
  BY DEF CreateConfig
<1>2. new \in ConfigRows /\ new.type = type /\ new.default = default /\ new.active = active
  <2>1. item \in Services /\ item.default = default /\ item.active = active
    BY DEF Services
  <2> HIDE DEF item
  <2> QED
    BY <2>1, NewConfigTyped DEF ConfigRows
<1>3. config \in Seq(ConfigRows) /\ n \in Nat /\ DOMAIN config = 1..n
  BY DEF ConfigInv
<1>4. kept \in Seq(ConfigRows) /\ Len(kept) = n
  BY <1>3, UndefaultedFacts
<1>5. \A i \in 1..n : kept[i].default => kept[i] = config[i] /\ (default => config[i].type # type)
  <2> SUFFICES ASSUME NEW i \in 1..n, kept[i].default
               PROVE  kept[i] = config[i] /\ (default => config[i].type # type)
    OBVIOUS
  <2>1. CASE default
    <3>1. kept[i] = Undefaulted(config, type, 0)[i] /\ i # 0
      BY <2>1
    <3> HIDE DEF kept
    <3>2. Undefaulted(config, type, 0)[i].default =>
            /\ config[i].type = type => i = 0
            /\ Undefaulted(config, type, 0)[i] = config[i]
      BY <1>3, UndefaultedDefaults
    <3> QED
      BY <3>1, <3>2
  <2>2. CASE ~default
    BY <2>2
  <2> QED
    BY <2>1, <2>2
<1> HIDE DEF new, kept
<1>6. /\ config' \in Seq(ConfigRows) /\ Len(config') = n + 1 /\ config'[n + 1] = new
      /\ \A i \in 1..n : config'[i] = kept[i]
  BY <1>1, <1>2, <1>3, <1>4
<1>7. DOMAIN config' = 1..(n + 1)
  BY <1>6, <1>3
<1>8. ASSUME Sound(config) PROVE Sound(config')
  <2>1. \A i \in 1..n : kept[i].default => config[i].default /\ kept[i] = config[i] /\ (default => config[i].type # type)
    BY <1>5
  <2>2. \A i \in DOMAIN config' : i \in 1..n \/ i = n + 1
    BY <1>3, <1>7
  <2>3. ASSUME NEW i \in DOMAIN config', config'[i].default PROVE config'[i].active
    BY <2>1, <2>2, <2>3, <1>1, <1>2, <1>3, <1>6, <1>8 DEF Sound
  <2>4. ASSUME NEW i \in DOMAIN config', NEW j \in DOMAIN config',
               config'[i].default, config'[j].default, config'[i].type = config'[j].type
        PROVE  i = j
    <3>1. CASE i \in 1..n /\ j \in 1..n
      BY <3>1, <2>1, <2>4, <1>3, <1>6, <1>8 DEF Sound
    <3>2. CASE i = n + 1 /\ j \in 1..n
      BY <3>2, <2>1, <2>4, <1>2, <1>6
    <3>3. CASE i \in 1..n /\ j = n + 1
      BY <3>3, <2>1, <2>4, <1>2, <1>6
    <3> QED
      BY <2>2, <2>4, <3>1, <3>2, <3>3
  <2> QED
    BY <2>3, <2>4 DEF Sound
<1>9. Len(config') >= n
  BY <1>3, <1>6
<1> QED
  BY <1>1, <1>6, <1>8, <1>9 DEF ConfigInv, ConfigKept

LEMMA DeleteConfigKeeps ==
  ASSUME ConfigInv, NEW id \in DOMAIN config, DeleteConfig(id)
  PROVE  ConfigKept
<1>1. config' = [config EXCEPT ![id] = Gone] /\ overtaken' = overtaken
  BY DEF DeleteConfig
<1>2. config \in Seq(ConfigRows) /\ id \in 1..Len(config) /\ Len(config) \in Nat /\ DOMAIN config = 1..Len(config)
  BY DEF ConfigInv
<1>3. /\ config' \in Seq(ConfigRows) /\ Len(config') = Len(config)
      /\ \A i \in 1..Len(config) : config'[i] = IF i = id THEN Gone ELSE config[i]
  BY <1>1, <1>2, GoneIsARow, ExceptSeq
<1>4. \A i \in 1..Len(config) : config'[i].default => config'[i] = config[i]
  BY <1>3, GoneIsARow
<1>5. DOMAIN config' = 1..Len(config)
  BY <1>3
<1>6. Sound(config) => Sound(config')
  BY <1>2, <1>4, <1>5 DEF Sound
<1>7. Len(config') >= Len(config)
  BY <1>2, <1>3
<1> QED
  BY <1>1, <1>3, <1>6, <1>7 DEF ConfigInv, ConfigKept

\* An update whose row is still what it read writes a sound row and takes the default from the
\* others; one whose row has changed is recorded.
LEMMA UpdateWriteKeeps ==
  ASSUME ConfigInv, NEW c \in Clients, UpdateHolds(pending[c]), UpdateWrite(c)
  PROVE  ConfigKept
<1> DEFINE p == pending[c]
           row == config[p.id]
           written == IF row = Gone THEN Gone ELSE Over(p.patch, row)
           n == Len(config)
<1>1. PICK base : base = Unset(config, p.clears, p.id)
  OBVIOUS
<1>2. /\ config' = [base EXCEPT ![p.id] = written]
      /\ overtaken' = (overtaken \/ row # p.read)
  BY <1>1 DEF UpdateWrite
<1>3. config \in Seq(ConfigRows) /\ n \in Nat /\ DOMAIN config = 1..n
  BY DEF ConfigInv
<1>4. /\ p.id \in 1..n /\ p.read \in Configs
      /\ \A r \in Configs : Over(p.patch, r) \in Configs
      /\ p.clears = {} \/ \E type \in ServiceTypes : p.clears = {type}
      /\ Over(p.patch, p.read).default =>
           Over(p.patch, p.read).active /\ p.clears = {Over(p.patch, p.read).type}
  BY <1>3 DEF UpdateHolds
<1> DEFINE Cleared == /\ base \in Seq(ConfigRows) /\ Len(base) = n
                      /\ \A i \in 1..n : base[i].default =>
                           /\ base[i] = config[i]
                           /\ \A type : p.clears = {type} /\ config[i].type = type => i = p.id
<1>5. Cleared
  <2>1. CASE p.clears = {}
    <3>1. base = config
      BY <1>1, <2>1 DEF Unset
    <3> QED
      BY <3>1, <1>3, <2>1
  <2>2. ASSUME NEW type \in ServiceTypes, p.clears = {type}
        PROVE  Cleared
    <3>1. p.clears # {} /\ (CHOOSE t \in p.clears : TRUE) = type
      BY <2>2
    <3>2. base = Undefaulted(config, type, p.id)
      BY <1>1, <3>1 DEF Unset
    <3>3. \A t : p.clears = {t} => t = type
      BY <2>2
    <3>4. base \in Seq(ConfigRows) /\ Len(base) = n
      BY <3>2, <1>3, UndefaultedFacts
    <3>5. \A i \in 1..n : base[i].default => base[i] = config[i] /\ (config[i].type = type => i = p.id)
      BY <3>2, <1>3, UndefaultedDefaults
    <3> HIDE DEF p
    <3> QED
      BY <3>3, <3>4, <3>5
  <2> QED
    BY <1>4, <2>1, <2>2
<1>6. written \in ConfigRows
  BY <1>3, <1>4 DEF ConfigRows
<1>7. ASSUME row = p.read
      PROVE  written.default => written.active /\ p.clears = {written.type}
  <2>1. written = Over(p.patch, p.read)
    BY <1>4, <1>7, ConfigFacts
  <2> HIDE DEF written, row
  <2> QED
    BY <1>4, <2>1
<1>8. PICK id, clears : id = p.id /\ clears = p.clears
  OBVIOUS
<1> HIDE DEF p, written, row
<1>9. /\ config' \in Seq(ConfigRows) /\ Len(config') = n
      /\ \A i \in 1..n : config'[i] = IF i = id THEN written ELSE base[i]
  <2>1. id \in 1..Len(base) /\ config' = [base EXCEPT ![id] = written]
    BY <1>2, <1>4, <1>5, <1>8
  <2> QED
    BY <2>1, <1>5, <1>6, ExceptSeq
<1>10. DOMAIN config' = 1..n
  BY <1>9
<1>11. ASSUME Sound(config), row = p.read PROVE Sound(config')
  <2>1. \A i \in 1..n : base[i].default => config[i].default /\ base[i] = config[i]
    BY <1>5
  <2>2. ASSUME NEW i \in DOMAIN config', config'[i].default PROVE config'[i].active
    BY <2>1, <2>2, <1>3, <1>7, <1>9, <1>10, <1>11 DEF Sound
  <2>3. ASSUME NEW i \in 1..n, i # id, config'[i].default, written.default PROVE config'[i].type # written.type
    <3>1. config'[i] = base[i] /\ base[i] = config[i]
      BY <2>1, <2>3, <1>9
    <3>2. clears = {written.type}
      BY <1>7, <1>8, <1>11, <2>3
    <3> QED
      BY <1>5, <1>8, <2>3, <3>1, <3>2
  <2>4. ASSUME NEW i \in DOMAIN config', NEW j \in DOMAIN config',
               config'[i].default, config'[j].default, config'[i].type = config'[j].type
        PROVE  i = j
    <3>1. CASE i # id /\ j # id
      BY <3>1, <2>1, <2>4, <1>3, <1>9, <1>10, <1>11 DEF Sound
    <3>2. CASE i = id
      BY <3>2, <2>3, <2>4, <1>9, <1>10
    <3>3. CASE j = id
      BY <3>3, <2>3, <2>4, <1>9, <1>10
    <3> QED
      BY <3>1, <3>2, <3>3
  <2> QED
    BY <2>2, <2>4 DEF Sound
<1>12. Len(config') >= n
  BY <1>3, <1>9
<1>13. overtaken' \in BOOLEAN /\ (overtaken' \/ Sound(config'))
  BY <1>2, <1>11 DEF ConfigInv
<1> QED
  BY <1>9, <1>12, <1>13 DEF ConfigInv, ConfigKept

LEMMA ApplyBundleKeepsConfigs ==
  ASSUME ConfigInv, NEW c \in Clients, pending[c].bundle \in Bundles, ApplyBundle(c)
  PROVE  ConfigKept
<1>1. PICK bundle \in Bundles : bundle = pending[c].bundle
  OBVIOUS
<1>2. config' = Placed(config, bundle) /\ overtaken' = overtaken
  BY <1>1 DEF ApplyBundle
<1>3. config \in Seq(ConfigRows)
  BY DEF ConfigInv
<1> QED
  BY <1>2, <1>3, PlacedFacts DEF ConfigInv, ConfigKept

LEMMA RestartKeepsConfigs ==
  ASSUME ConfigInv, Restart
  PROVE  ConfigKept
<1>1. config' = SeededConfigs(config) /\ overtaken' = overtaken /\ config \in Seq(ConfigRows)
  BY DEF ConfigInv, Restart
<1> QED
  BY <1>1, SeededConfigsFacts DEF ConfigInv, ConfigKept

\* The steps that write no config leave them as they are.
LEMMA OtherStepsLeaveConfigs ==
  ASSUME [Next]_vars
  PROVE  \/ config' = config /\ overtaken' = overtaken
         \/ \E type \in ServiceTypes, ident \in Idents \ {Mock}, default, active \in BOOLEAN :
              CreateConfig(type, ident, default, active)
         \/ \E c \in Clients : UpdateWrite(c) \/ ApplyBundle(c)
         \/ \E id \in DOMAIN config : DeleteConfig(id)
         \/ Restart
<1>1. ASSUME ConfigNext
      PROVE  \/ config' = config /\ overtaken' = overtaken
             \/ \E type \in ServiceTypes, ident \in Idents \ {Mock}, default, active \in BOOLEAN :
                  CreateConfig(type, ident, default, active)
             \/ \E c \in Clients : UpdateWrite(c)
             \/ \E id \in DOMAIN config : DeleteConfig(id)
  BY <1>1, Zenon DEF ConfigNext, UpdateRead
<1>2. ASSUME AgentNext PROVE config' = config /\ overtaken' = overtaken
  BY <1>2, Zenon DEF AgentNext, UpsertAgent, UpdateAgent, DeleteAgent
<1>3. ASSUME BundleNext
      PROVE  (config' = config /\ overtaken' = overtaken) \/ \E c \in Clients : ApplyBundle(c)
  BY <1>3, Zenon DEF BundleNext, PreviewConfigs, PreviewAgents, RefuseBundle
<1>4. ASSUME TemplateNext PROVE config' = config /\ overtaken' = overtaken
  BY <1>4, Zenon DEF TemplateNext, CreateTemplate, ReviveTemplate, UpdateTemplate, RestoreRevision,
                     RestoreRead, DeleteRead, RestoreWrite, DeleteWrite
<1>5. ASSUME SkillNext PROVE config' = config /\ overtaken' = overtaken
  BY <1>5, Zenon DEF SkillNext, CreateVersion, Archive, SetPublished
<1>6. ASSUME UNCHANGED vars PROVE config' = config /\ overtaken' = overtaken
  BY <1>6 DEF vars
<1> QED
  BY <1>1, <1>2, <1>3, <1>4, <1>5, <1>6 DEF Next

-----------------------------------------------------------------------------
(* Agent configs.                                                          *)

LEMMA AgentRowFacts ==
  ASSUME NEW row \in AgentRows
  PROVE  row.type \in AgentTypes /\ row.deleted \in BOOLEAN /\ row.prompt \in Contents \union {NoContent}
BY DEF AgentRows

LEMMA NewAgentTyped ==
  ASSUME NEW type \in AgentTypes, NEW body \in AgentBodies
  PROVE  NewAgent(type, body) \in AgentRows /\ NewAgent(type, body).type = type
BY DEF NewAgent, AgentBodies, AgentRows

LEMMA PlainTyped ==
  ASSUME NEW model \in Idents \union {NoContent}
  PROVE  Plain(model) \in AgentBodies
BY DEF Plain, AgentBodies

LEMMA LatestFacts ==
  ASSUME NEW rows \in Seq(AgentRows), NEW type, OfType(rows, type) # {}
  PROVE  /\ Latest(rows, type) \in 1..Len(rows)
         /\ rows[Latest(rows, type)].type = type
         /\ \A j \in 1..Len(rows) : rows[j].type = type => j <= Latest(rows, type)
<1>1. DOMAIN rows = 1..Len(rows) /\ Len(rows) \in Nat
  OBVIOUS
<1>2. PICK of : of = OfType(rows, type)
  OBVIOUS
<1>3. of \in SUBSET (0..Len(rows)) /\ \A i : i \in of <=> i \in 1..Len(rows) /\ rows[i].type = type
  BY <1>1, <1>2 DEF OfType
<1>4. Max(of) \in of /\ \A x \in of : Max(of) >= x
  BY <1>1, <1>2, <1>3, MaxOfBounded
<1>5. Latest(rows, type) = Max(of)
  BY <1>2 DEF Latest
<1> QED
  BY <1>1, <1>3, <1>4, <1>5

\* Rows keep their types; only a row that is the last of its type comes back to life.
LEMMA LastLivesKept ==
  ASSUME NEW rows \in Seq(AgentRows), NEW changed \in Seq(AgentRows), Len(changed) = Len(rows),
         LastLives(rows),
         \A i \in 1..Len(rows) : changed[i].type = rows[i].type,
         \A i \in 1..Len(rows) : ~changed[i].deleted =>
           ~rows[i].deleted \/ \A j \in 1..Len(rows) : rows[j].type = rows[i].type => j <= i
  PROVE  LastLives(changed)
<1>1. DOMAIN rows = 1..Len(rows) /\ DOMAIN changed = 1..Len(rows) /\ Len(rows) \in Nat
  OBVIOUS
<1> SUFFICES ASSUME NEW i \in 1..Len(rows), NEW j \in 1..Len(rows),
                    changed[i].type = changed[j].type, ~changed[i].deleted
             PROVE  j <= i
  BY <1>1 DEF LastLives
<1> QED
  BY <1>1 DEF LastLives

\* A row is added for an agent only beside deleted ones.
LEMMA LastLivesAdded ==
  ASSUME NEW rows \in Seq(AgentRows), LastLives(rows), NEW D \in SUBSET AgentTypes,
         NEW new \in [D -> AgentRows], \A type \in D : new[type].type = type,
         \A type \in D, i \in DOMAIN rows : rows[i].type = type => rows[i].deleted
  PROVE  Added(rows, new) \in Seq(AgentRows) /\ LastLives(Added(rows, new))
<1> DEFINE n == Len(rows)
<1>1. DOMAIN rows = 1..n /\ n \in Nat
  OBVIOUS
<1>2. IsFiniteSet(D)
  BY ConstantFacts, FS_Subset
<1>3. PICK all, order : all = Added(rows, new) /\ order = SetToSeq(D)
  OBVIOUS
<1>4. /\ all \in Seq(AgentRows)
      /\ Cardinality(D) \in Nat
      /\ Len(all) = n + Cardinality(D)
      /\ \A i \in 1..n : all[i] = rows[i]
      /\ \A k \in 1..Cardinality(D) : order[k] \in D /\ all[n + k] = new[order[k]]
      /\ \A k, l \in 1..Cardinality(D) : order[k] = order[l] => k = l
  <2>1. /\ Added(rows, new) \in Seq(AgentRows)
        /\ Cardinality(D) \in Nat
        /\ Len(Added(rows, new)) = n + Cardinality(D)
        /\ \A i \in 1..n : Added(rows, new)[i] = rows[i]
        /\ \A k \in 1..Cardinality(D) :
             /\ SetToSeq(D)[k] \in D
             /\ Added(rows, new)[n + k] = new[SetToSeq(D)[k]]
        /\ \A k, l \in 1..Cardinality(D) : SetToSeq(D)[k] = SetToSeq(D)[l] => k = l
    BY <1>2, AddedFacts
  <2> QED
    BY <2>1, <1>3
<1>5. ASSUME NEW i \in DOMAIN all, i \notin 1..n
      PROVE  /\ i > n /\ i - n \in 1..Cardinality(D)
             /\ all[i].type = order[i - n] /\ order[i - n] \in D
  <2>1. i > n /\ i - n \in 1..Cardinality(D) /\ n + (i - n) = i
    BY <1>1, <1>4, <1>5
  <2>2. all[i] = new[order[i - n]] /\ order[i - n] \in D
    BY <2>1, <1>4
  <2> QED
    BY <2>1, <2>2
<1>6. ASSUME NEW i \in DOMAIN all, NEW j \in DOMAIN all, all[i].type = all[j].type, ~all[i].deleted
      PROVE  j <= i
  <2>1. i \in Int /\ j \in Int
    BY <1>4
  <2>2. CASE i \in 1..n /\ j \in 1..n
    BY <2>2, <1>1, <1>4, <1>6 DEF LastLives
  <2>3. CASE i \in 1..n /\ j \notin 1..n
    <3>1. rows[i].deleted
      BY <2>3, <1>1, <1>4, <1>5, <1>6
    <3> QED
      BY <3>1, <2>3, <1>4, <1>6
  <2>4. CASE i \notin 1..n /\ j \in 1..n
    BY <2>1, <2>4, <1>1, <1>5
  <2>5. CASE i \notin 1..n /\ j \notin 1..n
    <3>1. i - n = j - n
      <4>1. PICK k, l : k = i - n /\ l = j - n
        OBVIOUS
      <4>2. k \in 1..Cardinality(D) /\ l \in 1..Cardinality(D) /\ order[k] = all[i].type /\ order[l] = all[j].type
        BY <2>5, <4>1, <1>5
      <4>3. order[k] = order[l]
        BY <4>2, <1>6
      <4> QED
        BY <4>1, <4>2, <4>3, <1>4
    <3> QED
      BY <3>1, <2>1, <1>1
  <2> QED
    BY <2>2, <2>3, <2>4, <2>5
<1> QED
  BY <1>3, <1>4, <1>6 DEF LastLives

LEMMA SeededAgentsFacts ==
  ASSUME NEW rows \in Seq(AgentRows), LastLives(rows)
  PROVE  SeededAgents(rows) \in Seq(AgentRows) /\ LastLives(SeededAgents(rows))
<1> DEFINE missing == {type \in AgentTypes : \A i \in DOMAIN rows : rows[i].type = type => rows[i].deleted}
           new == [type \in missing |-> NewAgent(type, Plain(NoContent))]
<1>1. SeededAgents(rows) = Added(rows, new)
  BY DEF SeededAgents
<1>2. missing \in SUBSET AgentTypes
      /\ \A type \in missing, i \in DOMAIN rows : rows[i].type = type => rows[i].deleted
  OBVIOUS
<1>3. new \in [missing -> AgentRows] /\ \A type \in missing : new[type].type = type
  BY NewAgentTyped, PlainTyped
<1> HIDE DEF missing, new
<1> QED
  BY <1>1, <1>2, <1>3, LastLivesAdded

\* What an upsert, a bundle, an update and a deletion write into a row.
LEMMA RowModelled ==
  ASSUME NEW row \in AgentRows, NEW model \in Idents
  PROVE  /\ [row EXCEPT !.model = model, !.active = TRUE, !.deleted = FALSE] \in AgentRows
         /\ [row EXCEPT !.model = model, !.active = TRUE, !.deleted = FALSE].type = row.type
BY DEF AgentRows

LEMMA RowUpdated ==
  ASSUME NEW row \in AgentRows, NEW body \in AgentBodies
  PROVE  /\ Over(body, row) \in AgentRows
         /\ Over(body, row).type = row.type
         /\ Over(body, row).deleted = row.deleted
<1>1. Over(body, row) = [type |-> row.type, model |-> body.model, prompt |-> body.prompt,
                         active |-> body.active, deleted |-> row.deleted]
  <2>1. DOMAIN row = {"type", "model", "prompt", "active", "deleted"}
    BY DEF AgentRows
  <2>2. DOMAIN body = {"model", "prompt", "active"}
    BY DEF AgentBodies
  <2> QED
    BY <2>1, <2>2 DEF Over
<1> QED
  BY <1>1 DEF AgentRows, AgentBodies

LEMMA RowDeleted ==
  ASSUME NEW row \in AgentRows
  PROVE  /\ [row EXCEPT !.deleted = TRUE] \in AgentRows
         /\ [row EXCEPT !.deleted = TRUE].type = row.type
         /\ [row EXCEPT !.deleted = TRUE].deleted
BY DEF AgentRows

\* The row that a change is written to keeps its type, and is live afterwards only if it was or is
\* the last of its type.
LEMMA AgentChanged ==
  ASSUME NEW rows \in Seq(AgentRows), LastLives(rows), NEW id \in 1..Len(rows), NEW row \in AgentRows,
         row.type = rows[id].type,
         ~row.deleted => ~rows[id].deleted \/ \A j \in 1..Len(rows) : rows[j].type = rows[id].type => j <= id
  PROVE  [rows EXCEPT ![id] = row] \in Seq(AgentRows) /\ LastLives([rows EXCEPT ![id] = row])
<1>1. PICK changed : changed = [rows EXCEPT ![id] = row]
  OBVIOUS
<1>2. /\ changed \in Seq(AgentRows) /\ Len(changed) = Len(rows)
      /\ \A i \in 1..Len(rows) : changed[i] = IF i = id THEN row ELSE rows[i]
  BY <1>1, ExceptSeq
<1>3. \A i \in 1..Len(rows) : changed[i].type = rows[i].type
  BY <1>2
<1>4. \A i \in 1..Len(rows) : ~changed[i].deleted =>
         ~rows[i].deleted \/ \A j \in 1..Len(rows) : rows[j].type = rows[i].type => j <= i
  BY <1>2
<1> QED
  BY <1>1, <1>2, <1>3, <1>4, LastLivesKept

LEMMA WithModelFacts ==
  ASSUME NEW rows \in Seq(AgentRows), LastLives(rows), NEW model \in Idents
  PROVE  WithModel(rows, model) \in Seq(AgentRows) /\ LastLives(WithModel(rows, model))
<1> DEFINE Taken(i) == [rows[i] EXCEPT !.model = model, !.active = TRUE, !.deleted = FALSE]
           mapped == [i \in DOMAIN rows |-> IF i = Latest(rows, rows[i].type) THEN Taken(i) ELSE rows[i]]
           missing == {t \in AgentTypes : OfType(rows, t) = {}}
           new == [type \in missing |-> NewAgent(type, Plain(model))]
           n == Len(rows)
<1>1. DOMAIN rows = 1..n /\ n \in Nat
  OBVIOUS
<1>2. WithModel(rows, model) = Added(mapped, new)
  BY DEF WithModel
<1>3. ASSUME NEW i \in 1..n PROVE Taken(i) \in AgentRows /\ Taken(i).type = rows[i].type
  <2>1. PICK row \in AgentRows : row = rows[i]
    OBVIOUS
  <2> QED
    BY <2>1, RowModelled
<1> HIDE DEF Taken
<1>4. /\ mapped \in Seq(AgentRows) /\ Len(mapped) = n
      /\ \A i \in 1..n : mapped[i] = IF i = Latest(rows, rows[i].type) THEN Taken(i) ELSE rows[i]
  <2>1. mapped \in [1..n -> AgentRows]
    BY <1>1, <1>3
  <2> QED
    BY <2>1, <1>1
<1> HIDE DEF mapped
<1>5. \A i \in 1..n : mapped[i].type = rows[i].type
  BY <1>3, <1>4
<1>6. \A i \in 1..n : i = Latest(rows, rows[i].type) =>
         \A j \in 1..n : rows[j].type = rows[i].type => j <= i
  <2> SUFFICES ASSUME NEW i \in 1..n, i = Latest(rows, rows[i].type),
                      NEW j \in 1..n, rows[j].type = rows[i].type
               PROVE  j <= i
    OBVIOUS
  <2>1. OfType(rows, rows[i].type) # {}
    BY <1>1 DEF OfType
  <2> QED
    BY <2>1, LatestFacts
<1>7. LastLives(mapped)
  <2>1. \A i \in 1..n : ~mapped[i].deleted =>
          ~rows[i].deleted \/ \A j \in 1..n : rows[j].type = rows[i].type => j <= i
    BY <1>4, <1>6
  <2> QED
    BY <2>1, <1>4, <1>5, LastLivesKept
<1>8. missing \in SUBSET AgentTypes /\ \A t \in missing, i \in DOMAIN mapped : mapped[i].type # t
  BY <1>1, <1>4, <1>5 DEF OfType
<1>9. new \in [missing -> AgentRows] /\ \A type \in missing : new[type].type = type
  BY NewAgentTyped, PlainTyped
<1> HIDE DEF missing, new
<1>10. \A type \in missing, i \in DOMAIN mapped : mapped[i].type = type => mapped[i].deleted
  BY <1>8
<1>11. Added(mapped, new) \in Seq(AgentRows) /\ LastLives(Added(mapped, new))
  <2> HIDE <1>1, <1>2, <1>3, <1>5, <1>6
  <2> QED
    BY <1>4, <1>7, <1>8, <1>9, <1>10, LastLivesAdded
<1> QED
  BY <1>2, <1>11

LEMMA UpsertAgentKeeps ==
  ASSUME AgentInv, NEW type \in AgentTypes, NEW body \in AgentBodies, UpsertAgent(type, body)
  PROVE  AgentInv'
<1>1. agent \in Seq(AgentRows) /\ LastLives(agent) /\ Len(agent) \in Nat /\ DOMAIN agent = 1..Len(agent)
  BY DEF AgentInv
<1>2. CASE OfType(agent, type) = {}
  <2>1. PICK row : row = NewAgent(type, body)
    OBVIOUS
  <2>2. row \in AgentRows /\ row.type = type /\ agent' = Append(agent, row)
    BY <1>2, <2>1, NewAgentTyped DEF UpsertAgent
  <2>3. /\ agent' \in Seq(AgentRows) /\ DOMAIN agent' = 1..(Len(agent) + 1)
        /\ agent'[Len(agent) + 1] = row
        /\ \A i \in 1..Len(agent) : agent'[i] = agent[i] /\ agent[i].type # type
    BY <1>1, <1>2, <2>2 DEF OfType
  <2>4. \A i \in DOMAIN agent' : i \in 1..Len(agent) \/ i = Len(agent) + 1
    BY <1>1, <2>3
  <2> QED
    BY <1>1, <2>2, <2>3, <2>4 DEF AgentInv, LastLives
<1>3. CASE OfType(agent, type) # {}
  <2>1. PICK id : id = Latest(agent, type)
    OBVIOUS
  <2>2. PICK row : row = NewAgent(type, body)
    OBVIOUS
  <2>3. agent' = [agent EXCEPT ![id] = row]
    BY <1>3, <2>1, <2>2 DEF UpsertAgent
  <2>4. /\ id \in 1..Len(agent) /\ agent[id].type = type
        /\ \A j \in 1..Len(agent) : agent[j].type = type => j <= id
    BY <1>1, <1>3, <2>1, LatestFacts
  <2>5. row \in AgentRows /\ row.type = agent[id].type
    BY <2>2, <2>4, NewAgentTyped
  <2> QED
    BY <1>1, <2>3, <2>4, <2>5, AgentChanged DEF AgentInv
<1> QED
  BY <1>2, <1>3

LEMMA UpdateAgentKeeps ==
  ASSUME AgentInv, NEW id \in DOMAIN agent, NEW body \in AgentBodies, UpdateAgent(id, body)
  PROVE  AgentInv'
<1>1. agent \in Seq(AgentRows) /\ LastLives(agent) /\ id \in 1..Len(agent) /\ agent[id] \in AgentRows
  BY DEF AgentInv
<1>2. PICK row : row = Over(body, agent[id])
  OBVIOUS
<1>3. agent' = [agent EXCEPT ![id] = row]
  BY <1>2 DEF UpdateAgent
<1>4. row \in AgentRows /\ row.type = agent[id].type /\ row.deleted = agent[id].deleted
  BY <1>1, <1>2, RowUpdated
<1> QED
  BY <1>1, <1>3, <1>4, AgentChanged DEF AgentInv

LEMMA DeleteAgentKeeps ==
  ASSUME AgentInv, NEW id \in DOMAIN agent, DeleteAgent(id)
  PROVE  AgentInv'
<1>1. agent \in Seq(AgentRows) /\ LastLives(agent) /\ id \in 1..Len(agent) /\ agent[id] \in AgentRows
  BY DEF AgentInv
<1>2. PICK row : row = [agent[id] EXCEPT !.deleted = TRUE]
  OBVIOUS
<1>3. agent' = [agent EXCEPT ![id] = row]
  BY <1>2 DEF DeleteAgent
<1>4. row \in AgentRows /\ row.type = agent[id].type /\ row.deleted
  BY <1>1, <1>2, RowDeleted
<1> QED
  BY <1>1, <1>3, <1>4, AgentChanged DEF AgentInv

LEMMA ApplyBundleKeepsAgents ==
  ASSUME AgentInv, NEW c \in Clients, pending[c].bundle \in Bundles, ApplyBundle(c)
  PROVE  AgentInv'
<1>1. PICK bundle \in Bundles : bundle = pending[c].bundle
  OBVIOUS
<1>2. agent' = WithModel(agent, bundle[Text].ident) \/ agent' = agent
  BY <1>1 DEF ApplyBundle
<1>3. bundle[Text].ident \in Idents
  <2>1. bundle[Text] \in Services
    BY ConstantFacts, BundleFacts
  <2> QED
    BY <2>1 DEF Services
<1> QED
  BY <1>2, <1>3, WithModelFacts DEF AgentInv

LEMMA RestartKeepsAgents ==
  ASSUME AgentInv, Restart
  PROVE  AgentInv'
BY SeededAgentsFacts DEF AgentInv, Restart

LEMMA OtherStepsLeaveAgents ==
  ASSUME [Next]_vars
  PROVE  agent' = agent \/ AgentNext \/ Restart \/ \E c \in Clients : ApplyBundle(c)
<1>1. ASSUME ConfigNext PROVE agent' = agent
  BY <1>1, Zenon DEF ConfigNext, CreateConfig, UpdateRead, UpdateWrite, DeleteConfig
<1>2. ASSUME BundleNext PROVE agent' = agent \/ \E c \in Clients : ApplyBundle(c)
  BY <1>2, Zenon DEF BundleNext, PreviewConfigs, PreviewAgents, RefuseBundle
<1>3. ASSUME TemplateNext PROVE agent' = agent
  BY <1>3, Zenon DEF TemplateNext, CreateTemplate, ReviveTemplate, UpdateTemplate, RestoreRevision,
                     RestoreRead, DeleteRead, RestoreWrite, DeleteWrite
<1>4. ASSUME SkillNext PROVE agent' = agent
  BY <1>4, Zenon DEF SkillNext, CreateVersion, Archive, SetPublished
<1>5. ASSUME UNCHANGED vars PROVE agent' = agent
  BY <1>5 DEF vars
<1> QED
  BY <1>1, <1>2, <1>3, <1>4, <1>5 DEF Next

-----------------------------------------------------------------------------
(* Prompt templates and their revisions.                                   *)

LEMMA FreshTells ==
  ASSUME NEW key \in Keys, NEW content \in Texts
  PROVE  /\ Fresh(key, content) \in TemplateRows
         /\ Fresh(key, content).key = key
         /\ <<Recorded(Fresh(key, content))>> \in Seq(Revisions)
         /\ Tells(Fresh(key, content), <<Recorded(Fresh(key, content))>>)
<1>1. Fresh(key, content) \in TemplateRows /\ Fresh(key, content).key = key
  BY DEF Fresh, TemplateRows
<1>2. Recorded(Fresh(key, content)) = [version |-> 1, key |-> key, content |-> content]
  BY DEF Recorded, Fresh
<1>3. PICK r \in Revisions : r = Recorded(Fresh(key, content)) /\ r.version = 1
  BY <1>2 DEF Revisions
<1>4. /\ <<r>> \in Seq(Revisions) /\ Len(<<r>>) = 1 /\ DOMAIN <<r>> = {1} /\ <<r>>[1] = r
  BY <1>3
<1>5. Fresh(key, content).version = 1
  BY DEF Fresh
<1> QED
  BY <1>1, <1>3, <1>4, <1>5 DEF Tells, Last

\* One row and its log are replaced together.
LEMMA RowReplaced ==
  ASSUME NEW rows, NEW logs, PromptsHold(rows, logs), NEW t \in DOMAIN rows,
         NEW row \in TemplateRows, NEW log \in Seq(Revisions), Tells(row, log),
         \A u \in DOMAIN rows : u # t => rows[u].key # row.key
  PROVE  PromptsHold([rows EXCEPT ![t] = row], [logs EXCEPT ![t] = log])
<1>1. /\ rows \in Seq(TemplateRows) /\ logs \in Seq(Seq(Revisions)) /\ Len(logs) = Len(rows)
      /\ t \in 1..Len(rows) /\ t \in 1..Len(logs) /\ DOMAIN rows = 1..Len(rows)
  BY DEF PromptsHold
<1>2. PICK changed, logged : changed = [rows EXCEPT ![t] = row] /\ logged = [logs EXCEPT ![t] = log]
  OBVIOUS
<1>3. /\ changed \in Seq(TemplateRows) /\ Len(changed) = Len(rows)
      /\ \A u \in 1..Len(rows) : changed[u] = IF u = t THEN row ELSE rows[u]
  BY <1>1, <1>2, ExceptSeq
<1>4. /\ logged \in Seq(Seq(Revisions)) /\ Len(logged) = Len(rows)
      /\ \A u \in 1..Len(rows) : logged[u] = IF u = t THEN log ELSE logs[u]
  BY <1>1, <1>2, ExceptSeq
<1>5. DOMAIN changed = 1..Len(rows)
  BY <1>3
<1>6. \A u \in 1..Len(rows) : Tells(changed[u], logged[u])
  BY <1>1, <1>3, <1>4 DEF PromptsHold
<1>7. \A u, v \in 1..Len(rows) : changed[u].key = changed[v].key => u = v
  BY <1>1, <1>3 DEF PromptsHold
<1> QED
  BY <1>2, <1>3, <1>4, <1>5, <1>6, <1>7 DEF PromptsHold

\* A row follows the one that is there: its number is the next one, and so is its revision's.
LEMMA FollowingTells ==
  ASSUME PromptInv, NEW t \in DOMAIN template, NEW key \in Keys, NEW content \in Texts
  PROVE  LET row == Following(t, key, content)
         IN  /\ row \in TemplateRows /\ row.key = key
             /\ Append(revision[t], Recorded(row)) \in Seq(Revisions)
             /\ Tells(row, Append(revision[t], Recorded(row)))
<1>1. PICK row, log : row = Following(t, key, content) /\ log = revision[t]
  OBVIOUS
<1>2. /\ template[t] \in TemplateRows /\ log \in Seq(Revisions)
      /\ \A n \in DOMAIN log : log[n].version = n
      /\ Len(log) = template[t].version
  BY <1>1 DEF PromptInv, PromptsHold, Tells
<1>3. template[t].version \in Nat \ {0}
  BY <1>2 DEF TemplateRows
<1>4. row = [key |-> key, content |-> content, version |-> Len(log) + 1, deleted |-> FALSE]
  BY <1>1, <1>2 DEF Following
<1>5. row \in TemplateRows /\ row.key = key /\ row.version = Len(log) + 1 /\ row.content = content
  BY <1>2, <1>3, <1>4 DEF TemplateRows
<1>6. PICK r : r = Recorded(row)
  OBVIOUS
<1>7. r \in Revisions /\ r.version = Len(log) + 1
  BY <1>2, <1>3, <1>5, <1>6 DEF Recorded, Revisions
<1>8. /\ Append(log, r) \in Seq(Revisions) /\ Len(Append(log, r)) = Len(log) + 1
      /\ Append(log, r)[Len(log) + 1] = r /\ DOMAIN Append(log, r) = 1..(Len(log) + 1)
      /\ \A n \in 1..Len(log) : Append(log, r)[n] = log[n]
  BY <1>2, <1>7
<1>9. \A n \in 1..(Len(log) + 1) : Append(log, r)[n].version = n
  <2> SUFFICES ASSUME NEW n \in 1..(Len(log) + 1) PROVE Append(log, r)[n].version = n
    OBVIOUS
  <2>1. n \in 1..Len(log) \/ n = Len(log) + 1
    BY <1>2
  <2>2. \A m \in 1..Len(log) : log[m].version = m
    BY <1>2
  <2> QED
    BY <2>1, <2>2, <1>7, <1>8
<1>10. Tells(row, Append(log, r))
  BY <1>5, <1>6, <1>8, <1>9 DEF Tells, Last
<1> QED
  BY <1>1, <1>5, <1>6, <1>8, <1>10

LEMMA RewrittenKeeps ==
  ASSUME PromptInv, NEW t \in DOMAIN template, NEW key \in Keys, NEW content \in Texts,
         \A u \in DOMAIN template : u # t => template[u].key # key,
         Rewritten(t, Following(t, key, content))
  PROVE  PromptInv' /\ Len(template') = Len(template)
<1>1. PICK row, log : row = Following(t, key, content) /\ log = Append(revision[t], Recorded(row))
  OBVIOUS
<1>2. row \in TemplateRows /\ row.key = key /\ log \in Seq(Revisions) /\ Tells(row, log)
  BY <1>1, FollowingTells
<1>3. /\ template \in Seq(TemplateRows) /\ revision \in Seq(Seq(Revisions))
      /\ t \in 1..Len(template) /\ t \in 1..Len(revision)
  BY DEF PromptInv, PromptsHold
<1>4. template' = [template EXCEPT ![t] = row] /\ revision' = [revision EXCEPT ![t] = log]
  BY <1>1, <1>3 DEF Rewritten
<1>5. PromptsHold([template EXCEPT ![t] = row], [revision EXCEPT ![t] = log])
  BY <1>2, RowReplaced DEF PromptInv
<1>6. Len([template EXCEPT ![t] = row]) = Len(template)
  BY <1>2, <1>3, ExceptSeq
<1> QED
  BY <1>4, <1>5, <1>6 DEF PromptInv

\* Templates whose keys nothing has yet are added with their first revisions.
LEMMA PromptsAdded ==
  ASSUME NEW rows, NEW logs, PromptsHold(rows, logs), NEW D \in SUBSET Keys, IsFiniteSet(D),
         \A t \in DOMAIN rows : rows[t].key \notin D,
         NEW text \in [D -> Texts]
  PROVE  /\ PromptsHold(Added(rows, [key \in D |-> Fresh(key, text[key])]),
                        Added(logs, [key \in D |-> <<Recorded(Fresh(key, text[key]))>>]))
         /\ Len(Added(rows, [key \in D |-> Fresh(key, text[key])])) >= Len(rows)
<1> DEFINE new == [key \in D |-> Fresh(key, text[key])]
           first == [key \in D |-> <<Recorded(Fresh(key, text[key]))>>]
           n == Len(rows)
<1>1. /\ rows \in Seq(TemplateRows) /\ logs \in Seq(Seq(Revisions)) /\ Len(logs) = n
      /\ n \in Nat /\ DOMAIN rows = 1..n
  BY DEF PromptsHold
<1>2. \A key \in D : /\ Fresh(key, text[key]) \in TemplateRows /\ Fresh(key, text[key]).key = key
                     /\ <<Recorded(Fresh(key, text[key]))>> \in Seq(Revisions)
                     /\ Tells(Fresh(key, text[key]), <<Recorded(Fresh(key, text[key]))>>)
  BY FreshTells
<1>3. /\ new \in [D -> TemplateRows] /\ first \in [D -> Seq(Revisions)]
      /\ \A key \in D : new[key].key = key /\ Tells(new[key], first[key])
  BY <1>2
<1> HIDE DEF new, first
<1>4. PICK all, logged, order : all = Added(rows, new) /\ logged = Added(logs, first) /\ order = SetToSeq(D)
  OBVIOUS
<1>5. /\ all \in Seq(TemplateRows)
      /\ Cardinality(D) \in Nat
      /\ Len(all) = n + Cardinality(D)
      /\ \A i \in 1..n : all[i] = rows[i]
      /\ \A k \in 1..Cardinality(D) : order[k] \in D /\ all[n + k] = new[order[k]]
      /\ \A k, l \in 1..Cardinality(D) : order[k] = order[l] => k = l
  <2>1. /\ Added(rows, new) \in Seq(TemplateRows)
        /\ Cardinality(D) \in Nat
        /\ Len(Added(rows, new)) = n + Cardinality(D)
        /\ \A i \in 1..n : Added(rows, new)[i] = rows[i]
        /\ \A k \in 1..Cardinality(D) :
             /\ SetToSeq(D)[k] \in D
             /\ Added(rows, new)[n + k] = new[SetToSeq(D)[k]]
        /\ \A k, l \in 1..Cardinality(D) : SetToSeq(D)[k] = SetToSeq(D)[l] => k = l
    BY <1>1, <1>3, AddedFacts
  <2> QED
    BY <2>1, <1>4
<1>6. /\ logged \in Seq(Seq(Revisions))
      /\ Len(logged) = n + Cardinality(D)
      /\ \A i \in 1..n : logged[i] = logs[i]
      /\ \A k \in 1..Cardinality(D) : logged[n + k] = first[order[k]]
  <2>1. /\ Added(logs, first) \in Seq(Seq(Revisions))
        /\ Len(Added(logs, first)) = Len(logs) + Cardinality(D)
        /\ \A i \in 1..Len(logs) : Added(logs, first)[i] = logs[i]
        /\ \A k \in 1..Cardinality(D) : Added(logs, first)[Len(logs) + k] = first[SetToSeq(D)[k]]
    <3> DEFINE S == Seq(Revisions)
    <3>1. logs \in Seq(S) /\ first \in [D -> S]
      BY <1>1, <1>3
    <3> HIDE DEF S
    <3>2. /\ Added(logs, first) \in Seq(S)
          /\ Len(Added(logs, first)) = Len(logs) + Cardinality(D)
          /\ \A i \in 1..Len(logs) : Added(logs, first)[i] = logs[i]
          /\ \A k \in 1..Cardinality(D) : Added(logs, first)[Len(logs) + k] = first[SetToSeq(D)[k]]
      BY <3>1, AddedFacts
    <3> QED
      BY <3>2 DEF S
  <2> QED
    BY <2>1, <1>1, <1>4
<1>7. ASSUME NEW i \in DOMAIN all, i \notin 1..n
      PROVE  /\ i - n \in 1..Cardinality(D) /\ order[i - n] \in D /\ all[i].key = order[i - n]
             /\ Tells(all[i], logged[i])
  <2>1. i - n \in 1..Cardinality(D) /\ n + (i - n) = i
    BY <1>1, <1>5, <1>7
  <2>2. order[i - n] \in D /\ all[i] = new[order[i - n]] /\ logged[i] = first[order[i - n]]
    BY <2>1, <1>5, <1>6
  <2> QED
    BY <2>1, <2>2, <1>3
<1>8. \A i \in DOMAIN all : i \in 1..n => all[i] = rows[i] /\ all[i].key \notin D /\ Tells(all[i], logged[i])
  BY <1>1, <1>5, <1>6 DEF PromptsHold
<1>9. \A i \in DOMAIN all : Tells(all[i], logged[i])
  BY <1>7, <1>8
<1>10. ASSUME NEW i \in DOMAIN all, NEW j \in DOMAIN all, all[i].key = all[j].key
       PROVE  i = j
  <2>1. i \in Int /\ j \in Int
    BY <1>5
  <2>2. CASE i \in 1..n /\ j \in 1..n
    BY <2>2, <1>1, <1>8, <1>10 DEF PromptsHold
  <2>3. CASE i \in 1..n /\ j \notin 1..n
    BY <2>3, <1>7, <1>8, <1>10
  <2>4. CASE i \notin 1..n /\ j \in 1..n
    BY <2>4, <1>7, <1>8, <1>10
  <2>5. CASE i \notin 1..n /\ j \notin 1..n
    <3>1. PICK k, l : k = i - n /\ l = j - n
      OBVIOUS
    <3>2. k \in 1..Cardinality(D) /\ l \in 1..Cardinality(D) /\ order[k] = all[i].key /\ order[l] = all[j].key
      BY <2>5, <3>1, <1>7
    <3>3. order[k] = order[l]
      BY <3>2, <1>10
    <3>4. k = l
      BY <3>2, <3>3, <1>5
    <3> QED
      BY <2>1, <3>1, <3>4, <1>1
  <2> QED
    BY <2>2, <2>3, <2>4, <2>5
<1>11. Len(all) >= n /\ Len(logged) = Len(all)
  BY <1>1, <1>5, <1>6
<1>12. PromptsHold(all, logged)
  BY <1>5, <1>6, <1>9, <1>10, <1>11 DEF PromptsHold
<1> QED
  BY <1>4, <1>11, <1>12 DEF new, first

LEMMA NoPrompts ==
  PromptsHold(<<>>, <<>>)
BY DEF PromptsHold

LEMMA CreateTemplateKeeps ==
  ASSUME PromptInv, NEW key \in Keys, NEW content \in Contents, CreateTemplate(key, content)
  PROVE  PromptInv' /\ Len(template') >= Len(template)
<1> DEFINE n == Len(template)
<1>1. PICK row, log : row = Fresh(key, content) /\ log = <<Recorded(Fresh(key, content))>>
  OBVIOUS
<1>2. row \in TemplateRows /\ row.key = key /\ log \in Seq(Revisions) /\ Tells(row, log)
  BY <1>1, FreshTells DEF Texts
<1>3. /\ template' = Append(template, row) /\ revision' = Append(revision, log)
      /\ \A t \in DOMAIN template : template[t].key # key
  BY <1>1 DEF CreateTemplate, Holders
<1>4. /\ template \in Seq(TemplateRows) /\ revision \in Seq(Seq(Revisions)) /\ Len(revision) = n
      /\ n \in Nat /\ DOMAIN template = 1..n
  BY DEF PromptInv, PromptsHold
<1>5. /\ template' \in Seq(TemplateRows) /\ Len(template') = n + 1 /\ template'[n + 1] = row
      /\ DOMAIN template' = 1..(n + 1)
      /\ \A t \in 1..n : template'[t] = template[t]
  BY <1>2, <1>3, <1>4
<1>6. /\ revision' \in Seq(Seq(Revisions)) /\ Len(revision') = n + 1 /\ revision'[n + 1] = log
      /\ \A t \in 1..n : revision'[t] = revision[t]
  <2> DEFINE S == Seq(Revisions)
  <2>1. revision \in Seq(S) /\ log \in S
    BY <1>2, <1>4
  <2> HIDE DEF S
  <2>2. /\ revision' \in Seq(S) /\ Len(revision') = n + 1 /\ revision'[n + 1] = log
        /\ \A t \in 1..n : revision'[t] = revision[t]
    BY <2>1, <1>3, <1>4
  <2> QED
    BY <2>2 DEF S
<1>7. \A t \in 1..(n + 1) : t \in 1..n \/ t = n + 1
  BY <1>4
<1>8. \A t \in 1..(n + 1) : Tells(template'[t], revision'[t])
  BY <1>2, <1>4, <1>5, <1>6, <1>7 DEF PromptInv, PromptsHold
<1>9. \A t, u \in 1..(n + 1) : template'[t].key = template'[u].key => t = u
  BY <1>2, <1>3, <1>4, <1>5, <1>7 DEF PromptInv, PromptsHold
<1>10. Len(template') >= n
  BY <1>4, <1>5
<1> QED
  BY <1>5, <1>6, <1>8, <1>9, <1>10 DEF PromptInv, PromptsHold

\* A rewrite that keeps the key.
LEMMA SameKeyKeeps ==
  ASSUME PromptInv, NEW t \in DOMAIN template, NEW content \in Texts,
         Rewritten(t, Following(t, template[t].key, content))
  PROVE  PromptInv' /\ Len(template') = Len(template)
<1>1. PICK key : key = template[t].key
  OBVIOUS
<1>2. key \in Keys /\ \A u \in DOMAIN template : u # t => template[u].key # key
  <2>1. template[t] \in TemplateRows
    BY DEF PromptInv, PromptsHold
  <2> QED
    BY <2>1, <1>1 DEF PromptInv, PromptsHold, TemplateRows
<1>3. Rewritten(t, Following(t, key, content))
  BY <1>1
<1> QED
  BY <1>2, <1>3, RewrittenKeeps

LEMMA DeleteWriteKeeps ==
  ASSUME PromptInv, NEW c \in Clients, pending[c].id \in DOMAIN template, DeleteWrite(c)
  PROVE  PromptInv' /\ Len(template') = Len(template)
<1>1. PICK t \in DOMAIN template : t = pending[c].id
  OBVIOUS
<1>2. PICK row : row = [template[t] EXCEPT !.deleted = TRUE]
  OBVIOUS
<1>3. /\ template \in Seq(TemplateRows) /\ revision \in Seq(Seq(Revisions)) /\ t \in 1..Len(template)
      /\ t \in 1..Len(revision) /\ template[t] \in TemplateRows /\ revision[t] \in Seq(Revisions)
      /\ Tells(template[t], revision[t])
  BY DEF PromptInv, PromptsHold
<1>4. template' = [template EXCEPT ![t] = row] /\ revision' = revision
  BY <1>1, <1>2 DEF DeleteWrite
<1>5. /\ row \in TemplateRows /\ row.key = template[t].key /\ row.version = template[t].version
      /\ row.content = template[t].content
  BY <1>2, <1>3 DEF TemplateRows
<1>6. Tells(row, revision[t])
  BY <1>3, <1>5 DEF Tells, Recorded
<1>7. \A u \in DOMAIN template : u # t => template[u].key # row.key
  BY <1>5 DEF PromptInv, PromptsHold
<1>8. PromptsHold([template EXCEPT ![t] = row], [revision EXCEPT ![t] = revision[t]])
  BY <1>3, <1>5, <1>6, <1>7, RowReplaced DEF PromptInv
<1>9. [revision EXCEPT ![t] = revision[t]] = revision
  BY <1>3
<1>10. Len([template EXCEPT ![t] = row]) = Len(template)
  BY <1>3, <1>5, ExceptSeq
<1> QED
  BY <1>4, <1>8, <1>9, <1>10 DEF PromptInv

LEMMA SeedContentTyped ==
  ASSUME agent \in Seq(AgentRows), NEW key \in Keys
  PROVE  SeedContent(key) \in Texts
<1> DEFINE legacy == {i \in DOMAIN agent : agent[i].type = key /\ ~agent[i].deleted}
<1>1. CASE legacy # {} /\ agent[Min(legacy)].prompt # NoContent
  <2>1. legacy \in SUBSET Nat
    OBVIOUS
  <2>2. Min(legacy) \in legacy
    <3> HIDE DEF legacy
    <3> QED
      BY <1>1, <2>1, MinOfNumbers
  <2>3. agent[Min(legacy)] \in AgentRows
    BY <2>2
  <2>4. SeedContent(key) = agent[Min(legacy)].prompt
    BY <1>1 DEF SeedContent
  <2> HIDE DEF legacy
  <2> QED
    BY <1>1, <2>3, <2>4, AgentRowFacts DEF Texts
<1>2. CASE ~(legacy # {} /\ agent[Min(legacy)].prompt # NoContent)
  <2>1. SeedContent(key) = DefaultOf(key)
    BY <1>2 DEF SeedContent
  <2> QED
    BY <2>1 DEF Texts
<1> QED
  BY <1>1, <1>2

LEMMA RestartKeepsPrompts ==
  ASSUME PromptInv, AgentInv, Restart
  PROVE  PromptInv' /\ Len(template') >= Len(template)
<1>1. PICK D \in SUBSET Keys : D = Unseeded
  BY ConstantFacts DEF Unseeded
<1>2. IsFiniteSet(D) /\ \A t \in DOMAIN template : template[t].key \notin D
  <2>1. Unseeded \subseteq AgentTypes /\ \A t \in DOMAIN template : template[t].key \notin Unseeded
    BY DEF Unseeded
  <2> QED
    BY <1>1, <2>1, ConstantFacts, FS_Subset
<1> DEFINE text == [key \in D |-> SeedContent(key)]
<1>3. text \in [D -> Texts] /\ \A key \in D : text[key] = SeedContent(key)
  BY SeedContentTyped DEF AgentInv
<1>4. /\ template' = Added(template, [key \in D |-> Fresh(key, text[key])])
      /\ revision' = Added(revision, [key \in D |-> <<Recorded(Fresh(key, text[key]))>>])
  BY <1>1, <1>3, Zenon DEF Restart, SeededTemplates
<1> HIDE DEF text
<1> QED
  BY <1>2, <1>3, <1>4, PromptsAdded DEF PromptInv

LEMMA OtherStepsLeavePrompts ==
  ASSUME [Next]_vars
  PROVE  UNCHANGED prompts \/ TemplateNext \/ Restart
<1>1. ASSUME ConfigNext PROVE UNCHANGED prompts
  BY <1>1, Zenon DEF ConfigNext, CreateConfig, UpdateRead, UpdateWrite, DeleteConfig, prompts
<1>2. ASSUME BundleNext PROVE UNCHANGED prompts
  BY <1>2, Zenon DEF BundleNext, PreviewConfigs, PreviewAgents, ApplyBundle, RefuseBundle, prompts
<1>3. ASSUME AgentNext PROVE UNCHANGED prompts
  BY <1>3, Zenon DEF AgentNext, UpsertAgent, UpdateAgent, DeleteAgent, prompts
<1>4. ASSUME SkillNext PROVE UNCHANGED prompts
  BY <1>4, Zenon DEF SkillNext, CreateVersion, Archive, SetPublished, prompts
<1>5. ASSUME UNCHANGED vars PROVE UNCHANGED prompts
  BY <1>5 DEF vars
<1> QED
  BY <1>1, <1>2, <1>3, <1>4, <1>5 DEF Next

LEMMA TemplateStep ==
  ASSUME PromptInv, PendingInv, TemplateNext
  PROVE  PromptInv' /\ Len(template') >= Len(template)
<1> DEFINE Kept == PromptInv' /\ Len(template') >= Len(template)
<1>0. Len(template) \in Nat
  BY DEF PromptInv, PromptsHold
<1>1. ASSUME UNCHANGED prompts PROVE Kept
  BY <1>0, <1>1 DEF PromptInv, prompts
<1>2. ASSUME NEW key \in Keys, NEW content \in Contents, CreateTemplate(key, content) PROVE Kept
  BY <1>2, CreateTemplateKeeps
<1>3. ASSUME NEW t \in DOMAIN template, NEW content \in Contents, ReviveTemplate(t, content) PROVE Kept
  BY <1>0, <1>3, SameKeyKeeps DEF ReviveTemplate, Texts
<1>4. ASSUME NEW t \in DOMAIN template, NEW key \in Keys, NEW content \in Contents,
             UpdateTemplate(t, key, content)
      PROVE  Kept
  <2>1. \A u \in DOMAIN template : u # t => template[u].key # key
    BY <1>4 DEF UpdateTemplate, Holders
  <2> QED
    BY <1>0, <1>4, <2>1, RewrittenKeeps DEF UpdateTemplate, Texts
<1>5. ASSUME NEW t \in DOMAIN template, NEW r \in ToSet(revision[t]), RestoreRevision(t, r) PROVE Kept
  <2>1. revision[t] \in Seq(Revisions)
    BY DEF PromptInv, PromptsHold
  <2>2. r.content \in Texts
    <3>1. PICK i \in DOMAIN revision[t] : r = revision[t][i]
      BY DEF ToSet
    <3>2. r \in Revisions
      BY <2>1, <3>1
    <3> QED
      BY <3>2 DEF Revisions
  <2> QED
    BY <1>0, <1>5, <2>2, SameKeyKeeps DEF RestoreRevision
<1>6. ASSUME NEW c \in Clients, RestoreWrite(c) PROVE Kept
  <2>1. pending[c].id \in DOMAIN template /\ pending[c].content \in Texts
    <3>1. pending[c].kind = "restore" /\ PendingHolds(pending[c])
      BY <1>6 DEF RestoreWrite, PendingInv
    <3> QED
      BY <3>1 DEF PendingHolds, Idle
  <2>2. PICK t \in DOMAIN template, content \in Texts : t = pending[c].id /\ content = pending[c].content
    BY <2>1
  <2>3. UNCHANGED prompts \/ Rewritten(t, Following(t, template[t].key, content))
    BY <1>6, <2>2 DEF RestoreWrite
  <2> QED
    BY <1>0, <1>1, <2>3, SameKeyKeeps
<1>7. ASSUME NEW c \in Clients, DeleteWrite(c) PROVE Kept
  <2>1. pending[c].kind = "delete" /\ PendingHolds(pending[c])
    BY <1>7 DEF DeleteWrite, PendingInv
  <2>2. pending[c].id \in DOMAIN template
    BY <2>1 DEF PendingHolds, Idle
  <2> QED
    BY <1>0, <1>7, <2>2, DeleteWriteKeeps
<1>8. ASSUME NEW c \in Clients, NEW t \in DOMAIN template, RestoreRead(c, t) \/ DeleteRead(c, t) PROVE Kept
  BY <1>1, <1>8 DEF RestoreRead, DeleteRead
<1> HIDE DEF Kept
<1>9. Kept
  BY <1>2, <1>3, <1>4, <1>5, <1>6, <1>7, <1>8 DEF TemplateNext
<1> QED
  BY <1>9 DEF Kept

-----------------------------------------------------------------------------
(* The skill registry.                                                     *)

\* The next number of a skill is one more than the versions it has.
LEMMA HighestNumber ==
  ASSUME RegistryInv, NEW type \in AgentTypes
  PROVE  /\ IsFiniteSet(VersionsOf(type)) /\ Cardinality(VersionsOf(type)) \in Nat
         /\ Max({version[v].number : v \in VersionsOf(type)} \union {0}) = Cardinality(VersionsOf(type))
<1>1. PICK V : V = VersionsOf(type)
  OBVIOUS
<1>2. PICK n \in Nat : n = Len(version) /\ DOMAIN version = 1..n
  BY DEF RegistryInv
<1>3. V \in SUBSET (1..n)
  BY <1>1, <1>2 DEF VersionsOf
<1>4. IsFiniteSet(V) /\ Cardinality(V) \in Nat
  <2>1. IsFiniteSet(1..n)
    BY <1>2, FS_Interval
  <2>2. IsFiniteSet(V)
    BY <2>1, <1>3, FS_Subset
  <2> QED
    BY <2>2, FS_CardinalityType
<1>5. PICK k \in Nat : k = Cardinality(V)
  BY <1>4
<1>6. \A v \in V : version[v].number = Cardinality({w \in V : w <= v})
  BY <1>1 DEF RegistryInv, VersionsCount
<1>7. \A v \in V : version[v].number \in 0..k
  <2> SUFFICES ASSUME NEW v \in V PROVE version[v].number \in 0..k
    OBVIOUS
  <2>1. PICK below \in SUBSET V : below = {w \in V : w <= v}
    OBVIOUS
  <2>2. Cardinality(below) <= k /\ Cardinality(below) \in Nat
    BY <1>4, <1>5, FS_Subset, FS_CardinalityType
  <2> QED
    BY <1>6, <2>1, <2>2
<1>8. PICK numbers : numbers = {version[v].number : v \in V} \union {0}
  OBVIOUS
<1>9. numbers \in SUBSET (0..k) /\ numbers # {}
  BY <1>7, <1>8
<1>10. Max(numbers) \in numbers /\ \A x \in numbers : Max(numbers) >= x
  BY <1>9, MaxOfBounded
<1>11. k \in numbers
  <2>1. CASE V = {}
    BY <2>1, <1>5, <1>8, FS_EmptySet
  <2>2. CASE V # {}
    <3>1. PICK m \in V : \A w \in V : m >= w
      <4>1. V \in SUBSET (0..n)
        BY <1>3
      <4> QED
        BY <2>2, <4>1, MaxOfBounded
    <3>2. {w \in V : w <= m} = V
      BY <3>1, <1>3
    <3>3. version[m].number = k
      BY <1>5, <1>6, <3>2
    <3> QED
      BY <1>8, <3>3
  <2> QED
    BY <2>1, <2>2
<1>12. Max(numbers) = k
  <2>1. PICK m : m = Max(numbers)
    OBVIOUS
  <2>2. m \in 0..k /\ m >= k
    BY <2>1, <1>9, <1>10, <1>11
  <2> QED
    BY <2>1, <2>2
<1> QED
  BY <1>1, <1>4, <1>5, <1>8, <1>12

LEMMA CreateVersionKeeps ==
  ASSUME RegistryInv, NEW type \in AgentTypes, CreateVersion(type)
  PROVE  RegistryInv'
<1>1. PICK n \in Nat : n = Len(version) /\ DOMAIN version = 1..n
  BY DEF RegistryInv
<1>2. PICK k \in Nat : k = Cardinality(VersionsOf(type))
  BY HighestNumber
<1>3. PICK row : row = [skill |-> type, number |-> k + 1]
  OBVIOUS
<1>4. version' = Append(version, row) /\ skill' = skill /\ publication' = publication
  BY <1>2, <1>3, HighestNumber DEF CreateVersion
<1>5. /\ version \in Seq([skill : AgentTypes, number : Nat \ {0}])
      /\ row \in [skill : AgentTypes, number : Nat \ {0}] /\ row.skill = type /\ row.number = k + 1
  BY <1>3 DEF RegistryInv
<1>6. /\ version' \in Seq([skill : AgentTypes, number : Nat \ {0}])
      /\ DOMAIN version' = 1..(n + 1) /\ version'[n + 1] = row
      /\ \A v \in 1..n : version'[v] = version[v]
  BY <1>1, <1>4, <1>5
<1>7. \A v \in 1..(n + 1) : v \in 1..n \/ v = n + 1
  OBVIOUS
<1>8. /\ VersionsOf(type)' = VersionsOf(type) \union {n + 1}
      /\ \A t \in AgentTypes : t # type => VersionsOf(t)' = VersionsOf(t)
      /\ \A t \in AgentTypes : VersionsOf(t) \subseteq 1..n
  BY <1>1, <1>5, <1>6, <1>7 DEF VersionsOf
<1>9. ASSUME NEW t \in AgentTypes PROVE VersionsCount(t)'
  <2>1. PICK V, W : V = VersionsOf(t) /\ W = VersionsOf(t)'
    OBVIOUS
  <2>2. SUFFICES ASSUME NEW v \in W
                 PROVE  version'[v].number = Cardinality({w \in W : w <= v})
    BY <2>1 DEF VersionsCount
  <2>3. V \subseteq 1..n /\ (t = type => W = V \union {n + 1}) /\ (t # type => W = V)
    BY <1>8, <2>1
  <2>4. CASE v \in 1..n
    <3>1. {w \in W : w <= v} = {w \in V : w <= v} /\ v \in V
      BY <2>3, <2>4
    <3>2. version[v].number = Cardinality({w \in V : w <= v})
      BY <2>1, <3>1 DEF RegistryInv, VersionsCount
    <3> QED
      BY <1>6, <2>4, <3>1, <3>2
  <2>5. CASE v = n + 1
    <3>1. t = type /\ {w \in W : w <= v} = V \union {n + 1} /\ n + 1 \notin V
      <4>1. n + 1 \notin V
        BY <2>3
      <4>2. t = type /\ W = V \union {n + 1}
        BY <4>1, <2>3, <2>5
      <4>3. \A w \in W : w <= v
        BY <4>2, <2>3, <2>5
      <4> QED
        BY <4>1, <4>2, <4>3
    <3>2. IsFiniteSet(V) /\ Cardinality(V) = k
      BY <1>2, <2>1, <3>1, HighestNumber
    <3>3. Cardinality(V \union {n + 1}) = k + 1
      BY <3>1, <3>2, FS_AddElement
    <3> QED
      BY <1>5, <1>6, <2>5, <3>1, <3>3
  <2> QED
    BY <2>3, <2>4, <2>5
<1>10. \A t \in AgentTypes : LastTells(t)'
  <2>1. \A t \in AgentTypes : LogOf(t)' = LogOf(t)
    BY <1>4 DEF LogOf
  <2> QED
    BY <2>1, <1>4 DEF RegistryInv, LastTells
<1>11. \A t \in AgentTypes : skill'[t].published \in VersionsOf(t)' \union {NoVersion}
  BY <1>4, <1>8 DEF RegistryInv
<1>12. skill' \in [AgentTypes -> [published : {NoVersion} \union DOMAIN version', archived : BOOLEAN]]
  <2>1. DOMAIN version \subseteq DOMAIN version'
    BY <1>1, <1>6
  <2> QED
    BY <1>4, <2>1 DEF RegistryInv
<1>13. publication' \in Seq(Publications)
  BY <1>4 DEF RegistryInv
<1> QED
  BY <1>6, <1>9, <1>10, <1>11, <1>12, <1>13 DEF RegistryInv

\* A publication is the last of its skill and leaves the last of every other skill as it is.
LEMMA PublicationAppended ==
  ASSUME RegistryInv, NEW type \in AgentTypes, NEW entry \in Publications, entry.skill = type,
         publication' = Append(publication, entry)
  PROVE  /\ publication' \in Seq(Publications)
         /\ LogOf(type)' # {} /\ publication'[Max(LogOf(type)')] = entry
         /\ \A t \in AgentTypes : t # type =>
              /\ LogOf(t)' = LogOf(t)
              /\ LogOf(t) # {} => publication'[Max(LogOf(t))] = publication[Max(LogOf(t))]
<1>1. PICK n \in Nat : n = Len(publication) /\ DOMAIN publication = 1..n /\ publication \in Seq(Publications)
  BY DEF RegistryInv
<1>2. /\ publication' \in Seq(Publications)
      /\ DOMAIN publication' = 1..(n + 1) /\ publication'[n + 1] = entry
      /\ \A i \in 1..n : publication'[i] = publication[i]
  BY <1>1
<1>3. \A i \in 1..(n + 1) : i \in 1..n \/ i = n + 1
  OBVIOUS
<1>4. /\ LogOf(type)' = LogOf(type) \union {n + 1}
      /\ \A t \in AgentTypes : t # type => LogOf(t)' = LogOf(t)
      /\ \A t \in AgentTypes : LogOf(t) \subseteq 1..n
  BY <1>1, <1>2, <1>3 DEF LogOf
<1>5. Max(LogOf(type)') = n + 1
  <2>1. PICK log : log = LogOf(type)'
    OBVIOUS
  <2>2. n + 1 \in log /\ log \in SUBSET (0..(n + 1))
    BY <1>4, <2>1
  <2>3. PICK last \in Nat : last = n + 1
    OBVIOUS
  <2>4. Max(log) \in log /\ \A x \in log : Max(log) >= x
    BY <2>2, <2>3, MaxOfBounded
  <2>5. PICK m : m = Max(log)
    OBVIOUS
  <2>6. m \in 0..(n + 1) /\ m >= n + 1
    BY <2>2, <2>4, <2>5
  <2> QED
    BY <2>1, <2>5, <2>6
<1>6. ASSUME NEW t \in AgentTypes, t # type, LogOf(t) # {}
      PROVE  publication'[Max(LogOf(t))] = publication[Max(LogOf(t))]
  <2>1. PICK log : log = LogOf(t)
    OBVIOUS
  <2>2. log \in SUBSET (1..n) /\ log \in SUBSET (0..n) /\ log # {}
    BY <1>4, <1>6, <2>1
  <2>3. Max(log) \in 1..n
    BY <2>2, MaxOfBounded
  <2> QED
    BY <1>2, <2>1, <2>3
<1> QED
  BY <1>2, <1>4, <1>5, <1>6

\* A step that publishes what it writes.
LEMMA PublishedStep ==
  ASSUME RegistryInv, NEW type \in AgentTypes, NEW v \in VersionsOf(type) \union {NoVersion},
         NEW action \in {"publish", "rollback", "archive"},
         publication' = Append(publication, [skill |-> type, action |-> action, version |-> v]),
         skill' \in [AgentTypes -> [published : {NoVersion} \union DOMAIN version, archived : BOOLEAN]],
         skill'[type].published = v, skill'[type].archived <=> action = "archive",
         \A t \in AgentTypes : t # type => skill'[t] = skill[t],
         version' = version
  PROVE  RegistryInv'
<1>1. PICK entry : entry = [skill |-> type, action |-> action, version |-> v]
  OBVIOUS
<1>2. v \in {NoVersion} \union DOMAIN version /\ v \in Nat
  BY DEF VersionsOf, RegistryInv, NoVersion
<1>3. entry \in Publications /\ entry.skill = type /\ entry.action = action /\ entry.version = v
  BY <1>1, <1>2 DEF Publications
<1>4. /\ publication' \in Seq(Publications)
      /\ LogOf(type)' # {} /\ publication'[Max(LogOf(type)')] = entry
      /\ \A t \in AgentTypes : t # type =>
           /\ LogOf(t)' = LogOf(t)
           /\ LogOf(t) # {} => publication'[Max(LogOf(t))] = publication[Max(LogOf(t))]
  BY <1>1, <1>3, PublicationAppended
<1>9. LastTells(type)'
  BY <1>3, <1>4 DEF LastTells
<1>10. ASSUME NEW t \in AgentTypes, t # type PROVE LastTells(t)'
  <2>1. LastTells(t)
    BY DEF RegistryInv
  <2>2. skill'[t] = skill[t] /\ LogOf(t)' = LogOf(t)
    BY <1>4, <1>10
  <2>3. LogOf(t) # {} => publication'[Max(LogOf(t)')] = publication[Max(LogOf(t))]
    BY <2>2, <1>4, <1>10
  <2> QED
    BY <2>1, <2>2, <2>3 DEF LastTells
<1>11. \A t \in AgentTypes : VersionsOf(t)' = VersionsOf(t) /\ VersionsCount(t)'
  <2>1. \A t \in AgentTypes : VersionsOf(t)' = VersionsOf(t)
    BY DEF VersionsOf
  <2> QED
    BY <2>1 DEF RegistryInv, VersionsCount
<1>12. \A t \in AgentTypes : skill'[t].published \in VersionsOf(t)' \union {NoVersion}
  BY <1>11 DEF RegistryInv
<1>13. version' \in Seq([skill : AgentTypes, number : Nat \ {0}]) /\ DOMAIN version' = DOMAIN version
  BY DEF RegistryInv
<1> QED
  BY <1>4, <1>9, <1>10, <1>11, <1>12, <1>13 DEF RegistryInv

LEMMA SetPublishedKeeps ==
  ASSUME RegistryInv, NEW type \in AgentTypes, NEW v \in DOMAIN version,
         NEW action \in {"publish", "rollback"}, SetPublished(type, v, action)
  PROVE  RegistryInv'
<1>1. v \in VersionsOf(type) \union {NoVersion} /\ version' = version
      /\ publication' = Append(publication, [skill |-> type, action |-> action, version |-> v])
  BY DEF SetPublished
<1>2. /\ skill' \in [AgentTypes -> [published : {NoVersion} \union DOMAIN version, archived : BOOLEAN]]
      /\ skill'[type].published = v /\ skill'[type].archived = FALSE
      /\ \A t \in AgentTypes : t # type => skill'[t] = skill[t]
  BY DEF SetPublished, RegistryInv
<1>3. action \in {"publish", "rollback", "archive"} /\ action # "archive"
  OBVIOUS
<1> QED
  BY <1>1, <1>2, <1>3, PublishedStep

LEMMA ArchiveKeeps ==
  ASSUME RegistryInv, NEW type \in AgentTypes, Archive(type)
  PROVE  RegistryInv'
<1>1. PICK action, v : action = "archive" /\ v = NoVersion
  OBVIOUS
<1>2. v \in VersionsOf(type) \union {NoVersion} /\ version' = version
      /\ publication' = Append(publication, [skill |-> type, action |-> action, version |-> v])
  BY <1>1 DEF Archive
<1>3. /\ skill' \in [AgentTypes -> [published : {NoVersion} \union DOMAIN version, archived : BOOLEAN]]
      /\ skill'[type].published = v /\ skill'[type].archived = TRUE
      /\ \A t \in AgentTypes : t # type => skill'[t] = skill[t]
  BY <1>1 DEF Archive, RegistryInv
<1>4. action \in {"publish", "rollback", "archive"}
  BY <1>1
<1> QED
  BY <1>1, <1>2, <1>3, <1>4, PublishedStep

LEMMA OtherStepsLeaveRegistry ==
  ASSUME [Next]_vars
  PROVE  UNCHANGED registry \/ SkillNext
<1>1. ASSUME ConfigNext PROVE UNCHANGED registry
  BY <1>1, Zenon DEF ConfigNext, CreateConfig, UpdateRead, UpdateWrite, DeleteConfig, registry
<1>2. ASSUME BundleNext PROVE UNCHANGED registry
  BY <1>2, Zenon DEF BundleNext, PreviewConfigs, PreviewAgents, ApplyBundle, RefuseBundle, registry
<1>3. ASSUME AgentNext PROVE UNCHANGED registry
  BY <1>3, Zenon DEF AgentNext, UpsertAgent, UpdateAgent, DeleteAgent, registry
<1>4. ASSUME TemplateNext PROVE UNCHANGED registry
  BY <1>4, Zenon DEF TemplateNext, CreateTemplate, ReviveTemplate, UpdateTemplate, RestoreRevision,
                     RestoreRead, DeleteRead, RestoreWrite, DeleteWrite, registry
<1>5. ASSUME Restart PROVE UNCHANGED registry
  BY <1>5, Zenon DEF Restart, registry
<1>6. ASSUME UNCHANGED vars PROVE UNCHANGED registry
  BY <1>6 DEF vars
<1> QED
  BY <1>1, <1>2, <1>3, <1>4, <1>5, <1>6 DEF Next

LEMMA RegistryStep ==
  ASSUME RegistryInv, [Next]_vars
  PROVE  RegistryInv'
<1>1. ASSUME UNCHANGED registry PROVE RegistryInv'
  <2>1. /\ skill' = skill /\ version' = version /\ publication' = publication
        /\ \A type \in AgentTypes : LogOf(type)' = LogOf(type) /\ VersionsOf(type)' = VersionsOf(type)
    BY <1>1 DEF registry, LogOf, VersionsOf
  <2>2. \A type \in AgentTypes : LastTells(type)' /\ VersionsCount(type)'
    BY <2>1 DEF RegistryInv, LastTells, VersionsCount
  <2> QED
    BY <2>1, <2>2 DEF RegistryInv
<1>2. ASSUME SkillNext PROVE RegistryInv'
  BY <1>2, CreateVersionKeeps, ArchiveKeeps, SetPublishedKeeps DEF SkillNext
<1> QED
  BY <1>1, <1>2, OtherStepsLeaveRegistry

-----------------------------------------------------------------------------
(* Requests under way.                                                     *)

\* A request stays well formed while tables only grow.
LEMMA PendingStays ==
  ASSUME NEW p, PendingHolds(p), DOMAIN config \subseteq DOMAIN config', DOMAIN template \subseteq DOMAIN template'
  PROVE  PendingHolds(p)'
BY DEF PendingHolds, UpdateHolds

\* An update that deactivates its config lays the default aside whatever its body says.
LEMMA OverWithoutDefault ==
  ASSUME NEW patch, NEW row \in Configs, Over(patch, row) \in Configs
  PROVE  LET given == [f \in DOMAIN patch \union {"default"} |-> IF f = "default" THEN FALSE ELSE patch[f]]
         IN  Over(given, row) \in Configs /\ Over(given, row).default = FALSE
<1> DEFINE given == [f \in DOMAIN patch \union {"default"} |-> IF f = "default" THEN FALSE ELSE patch[f]]
<1>1. DOMAIN row = {"type", "ident", "default", "active"}
  BY DEF Configs
<1>2. DOMAIN given = DOMAIN patch \union {"default"}
  OBVIOUS
<1>3. given["default"] = FALSE /\ \A f \in DOMAIN patch : f # "default" => given[f] = patch[f]
  OBVIOUS
<1> HIDE DEF given
<1>4. PICK o, q : o = Over(patch, row) /\ q = Over(given, row)
  OBVIOUS
<1>5. /\ q = [f \in {"type", "ident", "default", "active"} |-> IF f \in DOMAIN given THEN given[f] ELSE row[f]]
      /\ o = [f \in {"type", "ident", "default", "active"} |-> IF f \in DOMAIN patch THEN patch[f] ELSE row[f]]
  BY <1>1, <1>4 DEF Over
<1>6. /\ q["type"] = o["type"] /\ q["ident"] = o["ident"] /\ q["active"] = o["active"]
      /\ q["default"] = FALSE
  BY <1>2, <1>3, <1>5
<1>7. q = [type |-> o.type, ident |-> o.ident, default |-> FALSE, active |-> o.active]
  BY <1>5, <1>6
<1>8. o.type \in ServiceTypes /\ o.ident \in Idents /\ o.active \in BOOLEAN
  BY <1>4 DEF Configs
<1>9. q \in Configs /\ q.default = FALSE
  BY <1>7, <1>8 DEF Configs
<1>10. Over(given, row) \in Configs /\ Over(given, row).default = FALSE
  BY <1>4, <1>9
<1> QED
  BY <1>10 DEF given

LEMMA UpdateReadHolds ==
  ASSUME ConfigInv, NEW c \in Clients, NEW id \in DOMAIN config, NEW patch \in Patches,
         UpdateRead(c, id, patch), DOMAIN pending = Clients
  PROVE  PendingHolds(pending[c])' /\ \A d \in Clients : d # c => pending'[d] = pending[d]
<1>1. PICK row, candidate : row = config[id] /\ candidate = Over(patch, row)
  OBVIOUS
<1>2. row \in Configs /\ candidate \in Configs
  <2>1. config[id] \in ConfigRows /\ config[id] # Gone
    BY DEF ConfigInv, UpdateRead
  <2> QED
    BY <1>1, <2>1, SettingsAssumption DEF ConfigRows
<1>3. \A r \in Configs : Over(patch, r) \in Configs
  BY SettingsAssumption
<1>4. PICK given : given = IF candidate.active THEN patch
                           ELSE [f \in DOMAIN patch \union {"default"} |->
                                   IF f = "default" THEN FALSE ELSE patch[f]]
  OBVIOUS
<1>5. PICK clears : clears = IF candidate.active /\ candidate.default THEN {candidate.type} ELSE {}
  OBVIOUS
<1>6. PICK p : p = [kind |-> "update", id |-> id, read |-> row, patch |-> given, clears |-> clears]
  OBVIOUS
<1>7. pending' = [pending EXCEPT ![c] = p] /\ config' = config
  BY <1>1, <1>4, <1>5, <1>6 DEF UpdateRead
<1>8. pending'[c] = p /\ \A d \in Clients : d # c => pending'[d] = pending[d]
  BY <1>7
<1>9. \A r \in Configs : Over(given, r) \in Configs /\ (~candidate.active => Over(given, r).default = FALSE)
  <2>1. CASE candidate.active
    BY <2>1, <1>3, <1>4
  <2>2. CASE ~candidate.active
    BY <2>2, <1>3, <1>4, OverWithoutDefault
  <2> QED
    BY <2>1, <2>2
<1>10. candidate.active => Over(given, row) = candidate
  BY <1>1, <1>4
<1>11. Over(given, row).default => Over(given, row).active /\ clears = {Over(given, row).type}
  BY <1>2, <1>5, <1>9, <1>10
<1>12. clears = {} \/ \E type \in ServiceTypes : clears = {type}
  BY <1>2, <1>5, ConfigFacts
<1>13. p.kind = "update" /\ p.id = id /\ p.read = row /\ p.patch = given /\ p.clears = clears
  BY <1>6
<1>14. UpdateHolds(p)'
  BY <1>2, <1>7, <1>9, <1>11, <1>12, <1>13 DEF UpdateHolds
<1>15. PendingHolds(p)'
  BY <1>13, <1>14 DEF PendingHolds
<1> QED
  BY <1>8, <1>15 DEF PendingHolds, UpdateHolds

\* Every other step starts a request that is well formed, ends one, or leaves it as it is.
PendingTouched(c) ==
  \/ pending'[c] = pending[c] \/ pending'[c] = Idle
  \/ PendingHolds(pending[c])'

LEMMA PendingStep ==
  ASSUME ConfigInv, PromptInv, PendingInv, [Next]_vars
  PROVE  DOMAIN pending' = Clients /\ \A c \in Clients : PendingTouched(c)
<1> DEFINE Touched == DOMAIN pending' = Clients /\ \A c \in Clients : PendingTouched(c)
<1>1. DOMAIN pending = Clients /\ \A c \in Clients : PendingHolds(pending[c])
  BY DEF PendingInv
<1>2. ASSUME pending' = pending PROVE Touched
  BY <1>1, <1>2 DEF PendingTouched
<1>3. ASSUME NEW c \in Clients, pending' = [pending EXCEPT ![c] = Idle] PROVE Touched
  BY <1>1, <1>3 DEF PendingTouched
<1>4. ASSUME NEW c \in Clients, NEW p, pending' = [pending EXCEPT ![c] = p], PendingHolds(p)' PROVE Touched
  <2>1. DOMAIN pending' = Clients /\ pending'[c] = p /\ \A d \in Clients : d # c => pending'[d] = pending[d]
    BY <1>1, <1>4
  <2>2. PendingHolds(pending[c])'
    BY <1>4, <2>1 DEF PendingHolds, UpdateHolds
  <2> QED
    BY <2>1, <2>2 DEF PendingTouched
<1> HIDE DEF Touched
<1>5. ASSUME ConfigNext PROVE Touched
  <2>1. ASSUME NEW type \in ServiceTypes, NEW ident \in Idents \ {Mock}, NEW default \in BOOLEAN,
               NEW active \in BOOLEAN, CreateConfig(type, ident, default, active)
        PROVE  Touched
    BY <2>1, <1>2 DEF CreateConfig
  <2>2. ASSUME NEW c \in Clients, NEW id \in DOMAIN config, NEW patch \in Patches, UpdateRead(c, id, patch)
        PROVE  Touched
    <3>1. PendingHolds(pending[c])' /\ \A d \in Clients : d # c => pending'[d] = pending[d]
      BY <2>2, <1>1, UpdateReadHolds
    <3>2. DOMAIN pending' = Clients
      BY <2>2, <1>1 DEF UpdateRead
    <3> QED
      BY <3>1, <3>2 DEF Touched, PendingTouched
  <2>3. ASSUME NEW c \in Clients, UpdateWrite(c) PROVE Touched
    BY <2>3, <1>3 DEF UpdateWrite
  <2>4. ASSUME NEW id \in DOMAIN config, DeleteConfig(id) PROVE Touched
    BY <2>4, <1>2 DEF DeleteConfig
  <2> QED
    BY <1>5, <2>1, <2>2, <2>3, <2>4 DEF ConfigNext
<1>6. ASSUME AgentNext PROVE Touched
  <2>1. pending' = pending
    BY <1>6, Zenon DEF AgentNext, UpsertAgent, UpdateAgent, DeleteAgent
  <2> QED
    BY <2>1, <1>2
<1>7. ASSUME BundleNext PROVE Touched
  <2>1. ASSUME NEW c \in Clients, NEW bundle \in Bundles, NEW withAgents \in BOOLEAN,
               PreviewConfigs(c, bundle, withAgents)
        PROVE  Touched
    <3>1. PICK p : p = [kind |-> "preview", bundle |-> bundle, withAgents |-> withAgents, configs |-> config]
      OBVIOUS
    <3>2. pending' = [pending EXCEPT ![c] = p]
      BY <2>1, <3>1 DEF PreviewConfigs
    <3>3. p.kind = "preview" /\ p.bundle \in Bundles /\ p.withAgents \in BOOLEAN
      BY <3>1
    <3>4. PendingHolds(p)'
      BY <3>3 DEF PendingHolds
    <3> QED
      BY <3>2, <3>4, <1>4
  <2>2. ASSUME NEW c \in Clients, PreviewAgents(c) PROVE Touched
    <3>1. PICK old : old = pending[c]
      OBVIOUS
    <3>2. PICK agents : agents = IF old.withAgents THEN agent ELSE <<>>
      OBVIOUS
    <3>3. PICK p : p = [kind |-> "token", bundle |-> old.bundle, withAgents |-> old.withAgents,
                        configs |-> old.configs, agents |-> agents]
      OBVIOUS
    <3>4. pending' = [pending EXCEPT ![c] = p] /\ old.kind = "preview"
      BY <2>2, <3>1, <3>2, <3>3 DEF PreviewAgents
    <3>5. old.bundle \in Bundles /\ old.withAgents \in BOOLEAN
      BY <1>1, <3>1, <3>4 DEF PendingHolds, Idle
    <3>6. p.kind = "token" /\ p.bundle = old.bundle /\ p.withAgents = old.withAgents
      BY <3>3
    <3>7. PendingHolds(p)'
      BY <3>5, <3>6 DEF PendingHolds
    <3> QED
      BY <3>4, <3>7, <1>4
  <2>3. ASSUME NEW c \in Clients, ApplyBundle(c) \/ RefuseBundle(c) PROVE Touched
    BY <2>3, <1>3 DEF ApplyBundle, RefuseBundle
  <2> QED
    BY <1>7, <2>1, <2>2, <2>3 DEF BundleNext
<1>8. ASSUME TemplateNext PROVE Touched
  <2>1. ASSUME NEW key \in Keys, NEW content \in Contents, CreateTemplate(key, content) PROVE Touched
    BY <2>1, <1>2 DEF CreateTemplate
  <2>2. ASSUME NEW t \in DOMAIN template, NEW content \in Contents, ReviveTemplate(t, content) PROVE Touched
    BY <2>2, <1>2 DEF ReviveTemplate
  <2>3. ASSUME NEW t \in DOMAIN template, NEW key \in Keys, NEW content \in Contents,
               UpdateTemplate(t, key, content)
        PROVE  Touched
    BY <2>3, <1>2 DEF UpdateTemplate
  <2>4. ASSUME NEW t \in DOMAIN template, NEW r \in ToSet(revision[t]), RestoreRevision(t, r) PROVE Touched
    BY <2>4, <1>2 DEF RestoreRevision
  <2>5. ASSUME NEW c \in Clients, NEW t \in DOMAIN template, RestoreRead(c, t) PROVE Touched
    <3>1. PICK text : text = DefaultOf(template[t].key)
      OBVIOUS
    <3>2. PICK p : p = [kind |-> "restore", id |-> t, content |-> text]
      OBVIOUS
    <3>3. pending' = [pending EXCEPT ![c] = p] /\ template' = template
      BY <2>5, <3>1, <3>2 DEF RestoreRead, prompts
    <3>4. template[t].key \in Keys
      <4>1. template[t] \in TemplateRows
        BY DEF PromptInv, PromptsHold
      <4> QED
        BY <4>1 DEF TemplateRows
    <3>5. text \in Texts
      BY <3>1, <3>4 DEF Texts
    <3>6. PendingHolds(p)'
      BY <3>2, <3>3, <3>5 DEF PendingHolds
    <3> QED
      BY <3>3, <3>6, <1>4
  <2>6. ASSUME NEW c \in Clients, NEW t \in DOMAIN template, DeleteRead(c, t) PROVE Touched
    <3>1. PICK p : p = [kind |-> "delete", id |-> t]
      OBVIOUS
    <3>2. pending' = [pending EXCEPT ![c] = p] /\ template' = template
      BY <2>6, <3>1 DEF DeleteRead, prompts
    <3>3. PendingHolds(p)'
      BY <3>1, <3>2 DEF PendingHolds
    <3> QED
      BY <3>2, <3>3, <1>4
  <2>7. ASSUME NEW c \in Clients, RestoreWrite(c) \/ DeleteWrite(c) PROVE Touched
    BY <2>7, <1>3 DEF RestoreWrite, DeleteWrite
  <2> QED
    BY <1>8, <2>1, <2>2, <2>3, <2>4, <2>5, <2>6, <2>7 DEF TemplateNext
<1>9. ASSUME SkillNext PROVE Touched
  <2>1. pending' = pending
    BY <1>9, Zenon DEF SkillNext, CreateVersion, Archive, SetPublished
  <2> QED
    BY <2>1, <1>2
<1>10. ASSUME Restart PROVE Touched
  <2>1. pending' = [c \in Clients |-> Idle]
    BY <1>10 DEF Restart
  <2> QED
    BY <2>1 DEF Touched, PendingTouched
<1>11. ASSUME UNCHANGED vars PROVE Touched
  BY <1>11, <1>2 DEF vars
<1>12. Touched
  BY <1>5, <1>6, <1>7, <1>8, <1>9, <1>10, <1>11 DEF Next
<1> QED
  BY <1>12 DEF Touched

-----------------------------------------------------------------------------
(* The invariant.                                                          *)

LEMMA ConfigStep ==
  ASSUME ConfigInv, PendingInv, [Next]_vars
  PROVE  ConfigKept
<1>0. Len(config) \in Nat
  BY DEF ConfigInv
<1>1. ASSUME config' = config, overtaken' = overtaken PROVE ConfigKept
  BY <1>0, <1>1 DEF ConfigInv, ConfigKept, Sound
<1>2. ASSUME NEW c \in Clients, UpdateWrite(c) PROVE ConfigKept
  <2>1. pending[c].kind = "update" /\ PendingHolds(pending[c])
    BY <1>2 DEF UpdateWrite, PendingInv
  <2>2. UpdateHolds(pending[c])
    BY <2>1 DEF PendingHolds, Idle
  <2> QED
    BY <1>2, <2>2, UpdateWriteKeeps
<1>3. ASSUME NEW c \in Clients, ApplyBundle(c) PROVE ConfigKept
  <2>1. pending[c].kind = "token" /\ PendingHolds(pending[c])
    BY <1>3 DEF ApplyBundle, PendingInv
  <2>2. pending[c].bundle \in Bundles
    BY <2>1 DEF PendingHolds, Idle
  <2> QED
    BY <1>3, <2>2, ApplyBundleKeepsConfigs
<1>4. ASSUME NEW type \in ServiceTypes, NEW ident \in Idents \ {Mock}, NEW default \in BOOLEAN,
             NEW active \in BOOLEAN, CreateConfig(type, ident, default, active)
      PROVE  ConfigKept
  BY <1>4, CreateConfigKeeps
<1>5. ASSUME NEW id \in DOMAIN config, DeleteConfig(id) PROVE ConfigKept
  BY <1>5, DeleteConfigKeeps
<1>6. ASSUME Restart PROVE ConfigKept
  BY <1>6, RestartKeepsConfigs
<1> QED
  BY <1>1, <1>2, <1>3, <1>4, <1>5, <1>6, OtherStepsLeaveConfigs

LEMMA AgentStep ==
  ASSUME AgentInv, PendingInv, [Next]_vars
  PROVE  AgentInv'
<1>1. ASSUME agent' = agent PROVE AgentInv'
  BY <1>1 DEF AgentInv, LastLives
<1>2. ASSUME AgentNext PROVE AgentInv'
  BY <1>2, UpsertAgentKeeps, UpdateAgentKeeps, DeleteAgentKeeps DEF AgentNext
<1>3. ASSUME NEW c \in Clients, ApplyBundle(c) PROVE AgentInv'
  <2>1. pending[c].kind = "token" /\ PendingHolds(pending[c])
    BY <1>3 DEF ApplyBundle, PendingInv
  <2>2. pending[c].bundle \in Bundles
    BY <2>1 DEF PendingHolds, Idle
  <2> QED
    BY <1>3, <2>2, ApplyBundleKeepsAgents
<1>4. ASSUME Restart PROVE AgentInv'
  BY <1>4, RestartKeepsAgents
<1> QED
  BY <1>1, <1>2, <1>3, <1>4, OtherStepsLeaveAgents

LEMMA PromptStep ==
  ASSUME PromptInv, AgentInv, PendingInv, [Next]_vars
  PROVE  PromptInv' /\ Len(template') >= Len(template)
<1>1. ASSUME UNCHANGED prompts PROVE PromptInv' /\ Len(template') >= Len(template)
  <2>1. Len(template) \in Nat
    BY DEF PromptInv, PromptsHold
  <2> QED
    BY <1>1, <2>1 DEF PromptInv, prompts
<1> QED
  BY <1>1, TemplateStep, RestartKeepsPrompts, OtherStepsLeavePrompts

LEMMA OpsStep ==
  ASSUME ops \in 0..MaxOps, [Next]_vars
  PROVE  ops' \in 0..MaxOps
<1>1. ASSUME Counted PROVE ops' \in 0..MaxOps
  BY <1>1, SettingsAssumption DEF Counted
<1>2. Counted \/ ops' = ops
  <2>1. ASSUME ConfigNext PROVE Counted \/ ops' = ops
    BY <2>1, Zenon DEF ConfigNext, CreateConfig, UpdateRead, UpdateWrite, DeleteConfig
  <2>2. ASSUME AgentNext PROVE Counted \/ ops' = ops
    BY <2>2, Zenon DEF AgentNext, UpsertAgent, UpdateAgent, DeleteAgent
  <2>3. ASSUME BundleNext PROVE Counted \/ ops' = ops
    BY <2>3, Zenon DEF BundleNext, PreviewConfigs, PreviewAgents, ApplyBundle, RefuseBundle
  <2>4. ASSUME TemplateNext PROVE Counted \/ ops' = ops
    BY <2>4, Zenon DEF TemplateNext, CreateTemplate, ReviveTemplate, UpdateTemplate, RestoreRevision,
                       RestoreRead, DeleteRead, RestoreWrite, DeleteWrite
  <2>5. ASSUME SkillNext PROVE Counted \/ ops' = ops
    BY <2>5, Zenon DEF SkillNext, CreateVersion, Archive, SetPublished
  <2>6. ASSUME Restart PROVE Counted \/ ops' = ops
    BY <2>6 DEF Restart
  <2>7. ASSUME UNCHANGED vars PROVE Counted \/ ops' = ops
    BY <2>7 DEF vars
  <2> QED
    BY <2>1, <2>2, <2>3, <2>4, <2>5, <2>6, <2>7 DEF Next
<1> QED
  BY <1>1, <1>2

LEMMA InvInitial ==
  ASSUME Init
  PROVE  SettingsInv
<1>1. ConfigInv
  <2>1. <<>> \in Seq(ConfigRows) /\ Sound(<<>>)
    BY DEF Sound
  <2>2. config = SeededConfigs(<<>>) /\ overtaken = FALSE
    BY DEF Init
  <2> QED
    BY <2>1, <2>2, SeededConfigsFacts DEF ConfigInv
<1>2. AgentInv
  <2>1. <<>> \in Seq(AgentRows) /\ LastLives(<<>>)
    BY DEF LastLives
  <2>2. agent = SeededAgents(<<>>)
    BY DEF Init
  <2> QED
    BY <2>1, <2>2, SeededAgentsFacts DEF AgentInv
<1>3. PromptInv
  <2> DEFINE text == [key \in AgentTypes |-> DefaultOf(key)]
  <2>1. text \in [AgentTypes -> Texts] /\ \A key \in AgentTypes : text[key] = DefaultOf(key)
    BY ConstantFacts DEF Texts
  <2>2. /\ template = Added(<<>>, [key \in AgentTypes |-> Fresh(key, text[key])])
        /\ revision = Added(<<>>, [key \in AgentTypes |-> <<Recorded(Fresh(key, text[key]))>>])
    BY <2>1, Zenon DEF Init
  <2> HIDE DEF text
  <2>3. \A t \in DOMAIN <<>> : <<>>[t].key \notin AgentTypes
    OBVIOUS
  <2> QED
    BY <2>1, <2>2, <2>3, NoPrompts, PromptsAdded, ConstantFacts DEF PromptInv
<1>4. RegistryInv
  <2>1. /\ version = <<>> /\ publication = <<>>
        /\ skill = [type \in AgentTypes |-> [published |-> NoVersion, archived |-> FALSE]]
    BY DEF Init
  <2>2. \A type \in AgentTypes : VersionsOf(type) = {} /\ LogOf(type) = {}
    BY <2>1 DEF VersionsOf, LogOf
  <2>3. skill \in [AgentTypes -> [published : {NoVersion} \union DOMAIN version, archived : BOOLEAN]]
    BY <2>1
  <2>4. \A type \in AgentTypes : LastTells(type) /\ VersionsCount(type)
    BY <2>1, <2>2 DEF LastTells, VersionsCount
  <2> QED
    BY <2>1, <2>3, <2>4 DEF RegistryInv
<1>5. PendingInv
  BY DEF Init, PendingInv, PendingHolds
<1>6. ops \in 0..MaxOps
  BY SettingsAssumption DEF Init
<1> QED
  BY <1>1, <1>2, <1>3, <1>4, <1>5, <1>6 DEF SettingsInv

LEMMA InvStep ==
  ASSUME SettingsInv, [Next]_vars
  PROVE  SettingsInv'
<1>1. ConfigInv /\ AgentInv /\ PromptInv /\ RegistryInv /\ PendingInv /\ ops \in 0..MaxOps
  BY DEF SettingsInv
<1>2. ConfigInv' /\ Len(config') >= Len(config)
  BY <1>1, ConfigStep DEF ConfigKept
<1>3. AgentInv'
  BY <1>1, AgentStep
<1>4. PromptInv' /\ Len(template') >= Len(template)
  BY <1>1, PromptStep
<1>5. RegistryInv'
  BY <1>1, RegistryStep
<1>6. PendingInv'
  <2>1. DOMAIN config \subseteq DOMAIN config'
    BY <1>1, <1>2 DEF ConfigInv
  <2>2. DOMAIN template \subseteq DOMAIN template'
    BY <1>1, <1>4 DEF PromptInv, PromptsHold
  <2>3. DOMAIN pending' = Clients /\ \A c \in Clients : PendingTouched(c)
    BY <1>1, PendingStep
  <2>4. ASSUME NEW c \in Clients PROVE PendingHolds(pending[c])'
    <3>1. CASE pending'[c] = pending[c]
      <4>1. PICK p : p = pending[c]
        OBVIOUS
      <4>2. PendingHolds(p)
        BY <1>1, <4>1 DEF PendingInv
      <4>3. PendingHolds(p)'
        BY <2>1, <2>2, <4>2, PendingStays
      <4> QED
        BY <3>1, <4>1, <4>3 DEF PendingHolds, UpdateHolds
    <3>2. CASE pending'[c] = Idle
      BY <3>2 DEF PendingHolds
    <3> QED
      BY <2>3, <3>1, <3>2 DEF PendingTouched
  <2> QED
    BY <2>3, <2>4 DEF PendingInv
<1>7. ops' \in 0..MaxOps
  BY <1>1, OpsStep
<1> QED
  BY <1>2, <1>3, <1>4, <1>5, <1>6, <1>7 DEF SettingsInv

\* Configs, agents, templates, the registry and the requests under way keep their invariants.
THEOREM SettingsInvariant == Spec => []SettingsInv
<1>1. Init => SettingsInv
  BY InvInitial
<1>2. SettingsInv /\ [Next]_vars => SettingsInv'
  BY InvStep
<1> QED
  BY <1>1, <1>2, PTL DEF Spec

LEMMA InvImpliesTypes ==
  ASSUME SettingsInv
  PROVE  SettingsTypeOK
<1>1. ConfigInv /\ AgentInv /\ PromptInv /\ RegistryInv /\ ops \in 0..MaxOps
  BY DEF SettingsInv
<1>2. \A i \in DOMAIN config : config[i] = Gone \/ config[i] \in Configs
  BY <1>1 DEF ConfigInv, ConfigRows
<1>3. \A i \in DOMAIN agent : agent[i] \in AgentRows
  BY <1>1 DEF AgentInv
<1>4. /\ DOMAIN revision = DOMAIN template
      /\ \A t \in DOMAIN template : template[t] \in TemplateRows
      /\ \A t, u \in DOMAIN template : template[t].key = template[u].key => t = u
  BY <1>1 DEF PromptInv, PromptsHold
<1>5. /\ skill \in [AgentTypes -> [published : {NoVersion} \union DOMAIN version, archived : BOOLEAN]]
      /\ \A v \in DOMAIN version : version[v] \in [skill : AgentTypes, number : Nat \ {0}]
  <2>1. skill \in [AgentTypes -> [published : {NoVersion} \union DOMAIN version, archived : BOOLEAN]]
    BY <1>1 DEF RegistryInv
  <2>2. PICK Rows : Rows = [skill : AgentTypes, number : Nat \ {0}]
    OBVIOUS
  <2>3. version \in Seq(Rows)
    BY <1>1, <2>2 DEF RegistryInv
  <2>4. \A v \in DOMAIN version : version[v] \in Rows
    BY <2>3
  <2> QED
    BY <2>1, <2>2, <2>4
<1>6. overtaken \in BOOLEAN
  BY <1>1 DEF ConfigInv
<1> QED
  BY <1>1, <1>2, <1>3, <1>4, <1>5, <1>6 DEF SettingsTypeOK, AgentRows, TemplateRows

\* Every row has the columns of its table and every reference names a row, for any services, agents,
\* keys, texts, bundles and requests.
THEOREM SettingsTypeCorrect == Spec => []SettingsTypeOK
<1>1. SettingsInv => SettingsTypeOK
  BY InvImpliesTypes
<1> QED
  BY <1>1, SettingsInvariant, PTL

\* At most one of a type's rows is a default: the pairs that Sound compares make a set of one row.
LEMMA SoundIsSound ==
  ASSUME config \in Seq(ConfigRows), Sound(config)
  PROVE  SoundDefaults
<1>1. ASSUME NEW type \in ServiceTypes
      PROVE  Cardinality({i \in OfType(config, type) : config[i].default}) <= 1
  <2>1. PICK held : held = {i \in OfType(config, type) : config[i].default}
    OBVIOUS
  <2>2. \A i, j \in held : i = j
    BY <2>1 DEF Sound, OfType
  <2>3. ASSUME held = {} PROVE Cardinality(held) <= 1
    <3>1. Cardinality({}) = 0
      BY FS_EmptySet
    <3> QED
      BY <2>3, <3>1
  <2>4. ASSUME NEW i \in held PROVE Cardinality(held) <= 1
    <3>1. held = {i}
      BY <2>2
    <3>2. Cardinality({i}) = 1
      BY FS_Singleton
    <3> QED
      BY <3>1, <3>2
  <2> QED
    BY <2>1, <2>3, <2>4
<1> QED
  BY <1>1 DEF SoundDefaults, Sound

\* What generation and agents look up is found and is one row, whatever creates, updates, deletions,
\* upserts, bundles and restarts do, except after an update overtaken by another one.
THEOREM ConfigurationsStaySound == Spec => []ConfigurationsAreSound
<1>1. ASSUME SettingsInv PROVE ConfigurationsAreSound
  <2>1. DefaultsAreSound
    BY <1>1, SoundIsSound DEF SettingsInv, ConfigInv, DefaultsAreSound
  <2>2. OneLiveAgentConfig
    <3>1. agent \in Seq(AgentRows) /\ LastLives(agent)
      BY <1>1 DEF SettingsInv, AgentInv
    <3>2. ASSUME NEW i \in DOMAIN agent, NEW j \in DOMAIN agent, agent[i].type = agent[j].type,
                 ~agent[i].deleted, ~agent[j].deleted
          PROVE  i = j
      <4>1. i \in Int /\ j \in Int
        BY <3>1
      <4>2. j <= i /\ i <= j
        BY <3>1, <3>2 DEF LastLives
      <4> QED
        BY <4>1, <4>2
    <3> QED
      BY <3>2 DEF OneLiveAgentConfig
  <2> QED
    BY <2>1, <2>2 DEF ConfigurationsAreSound
<1> QED
  BY <1>1, SettingsInvariant, PTL

\* The revisions of a template and the publications of a skill tell how each came to be what it is.
THEOREM HistoriesAreTrue == Spec => []HistoriesTellTheState
<1>1. ASSUME SettingsInv PROVE HistoriesTellTheState
  <2>1. RevisionsTellTheTemplate
    BY <1>1 DEF SettingsInv, PromptInv, PromptsHold, Tells, RevisionsTellTheTemplate
  <2>2. PublicationsTellTheSkill
    BY <1>1, Zenon DEF SettingsInv, RegistryInv, LastTells, LogOf, VersionsCount, PublicationsTellTheSkill
  <2> QED
    BY <2>1, <2>2 DEF HistoriesTellTheState
<1> QED
  BY <1>1, SettingsInvariant, PTL

\* What applying a bundle changes is what its preview named, although the preview read the configs
\* and the agents in two steps without a lock.
THEOREM BundlesKeepToTheirPreview == Spec => BundleChangesOnlyWhatItNamed
<1> DEFINE NamedByPreview == \A c \in Clients :
                       /\ pending[c].kind = "token" /\ pending'[c] = Idle
                       /\ config' # config
                       => \A i \in DOMAIN config :
                            config'[i] # config[i] => i \in Named(pending[c].configs, pending[c].bundle)
<1>1. ASSUME SettingsInv, [Next]_vars PROVE [NamedByPreview]_vars
  <2>1. ConfigInv /\ PendingInv
    BY <1>1 DEF SettingsInv
  <2>2. config \in Seq(ConfigRows) /\ DOMAIN config = 1..Len(config)
    BY <2>1 DEF ConfigInv
  <2>3. SUFFICES ASSUME NEW c \in Clients, pending[c].kind = "token", pending'[c] = Idle, config' # config,
                        NEW i \in DOMAIN config, config'[i] # config[i]
                 PROVE  i \in Named(pending[c].configs, pending[c].bundle)
    OBVIOUS
  <2>4. pending[c] # Idle
    BY <2>3 DEF Idle
  <2>5. pending' # pending
    BY <2>3, <2>4
  <2>6. CASE Restart
    <3>1. config'[i] = config[i]
      BY <2>2, <2>6, SeededConfigsFacts DEF Restart
    <3> QED
      BY <2>3, <3>1
  <2>7. ASSUME NEW d \in Clients, UpdateWrite(d) PROVE FALSE
    <3>1. pending[d].kind = "update" /\ pending' = [pending EXCEPT ![d] = Idle]
      BY <2>7 DEF UpdateWrite
    <3>2. d # c /\ c \in DOMAIN pending
      BY <2>1, <2>3, <3>1 DEF PendingInv
    <3> QED
      BY <2>3, <2>4, <3>1, <3>2
  <2>8. ASSUME NEW d \in Clients, ApplyBundle(d) PROVE i \in Named(pending[c].configs, pending[c].bundle)
    <3>1. pending' = [pending EXCEPT ![d] = Idle] /\ pending[d].configs = config /\ pending[d].kind = "token"
          /\ config' = Placed(config, pending[d].bundle)
      BY <2>8 DEF ApplyBundle, TokenHolds
    <3>2. c = d
      <4>1. c \in DOMAIN pending
        BY <2>1 DEF PendingInv
      <4> QED
        BY <2>3, <2>4, <3>1, <4>1
    <3>3. pending[c].bundle \in Bundles
      BY <2>1, <2>3, <2>4 DEF PendingInv, PendingHolds
    <3>4. i \in Named(config, pending[c].bundle)
      BY <2>2, <2>3, <3>1, <3>2, <3>3, PlacedFacts
    <3> QED
      BY <3>1, <3>2, <3>4
  <2>9. ASSUME NEW type \in ServiceTypes, NEW ident \in Idents \ {Mock}, NEW default \in BOOLEAN,
               NEW active \in BOOLEAN, CreateConfig(type, ident, default, active)
        PROVE  FALSE
    BY <2>5, <2>9 DEF CreateConfig
  <2>10. ASSUME NEW id \in DOMAIN config, DeleteConfig(id) PROVE FALSE
    BY <2>5, <2>10 DEF DeleteConfig
  <2> QED
    BY <1>1, <2>3, <2>6, <2>7, <2>8, <2>9, <2>10, OtherStepsLeaveConfigs
<1>2. [][NamedByPreview]_vars => BundleChangesOnlyWhatItNamed
  BY PTL DEF BundleChangesOnlyWhatItNamed
<1> QED
  BY <1>1, <1>2, SettingsInvariant, PTL DEF Spec
=============================================================================
