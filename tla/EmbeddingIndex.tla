---------------------------- MODULE EmbeddingIndex ----------------------------
(***************************************************************************)
(* The index of embeddings: builds of generate-embeddings.js, started on    *)
(* demand and possibly at once, each of which resolves the runtime          *)
(* configuration, reads the structured files and the index, reuses what it  *)
(* can, embeds the rest batch by batch and replaces the whole index after   *)
(* every batch; the servers' tool that selects a runtime and restarts its   *)
(* own search worker, and the script that takes keys out of the             *)
(* configuration; and the workers, which compare a query's vector with the  *)
(* index.                                                                   *)
(*                                                                         *)
(* Texts stand for their SHA-256; of the hashes an entry stores, of all the *)
(* fields of its record, only its own is ever compared.  Tiers and noise    *)
(* are left out: a record they filter is one that is not there.             *)
(***************************************************************************)
EXTENDS RuntimeConfig, Subsequence

CONSTANTS Builder,
          Server,           \* MCP servers, each with a search worker of its own
          Script,           \* migrate-runtime-secrets.mjs
          Entries,          \* how many ids of index entries there are, each that of a
                            \* record or of one of its facts and concepts
          Text, Nothing,
          Template,         \* templates/config/runtime.json
          Exported,         \* the variables with a key that have a value
          Requests,         \* what clients ask set_embedding_runtime for
          BatchSize,
          Settings,         \* bounds what happens: who acts, and what there is at first
          MaxEdits, MaxSwitches, MaxKills     \* bounds of the environment

\* Numbered in the order of the build.
Entry == 1..Entries

ASSUME IndexAssumption ==
    /\ Entries \in Nat /\ Nothing \notin Text /\ Script \notin Server
    /\ IsFiniteSet(Server) /\ ConfigFile(Template)
    /\ \A s \in Settings : /\ s.docs \in [Entry -> Text \cup {Nothing}] /\ ConfigFile(s.file)
                         /\ s.builders \subseteq Builder /\ s.servers \subseteq Server /\ s.migrates \in BOOLEAN
    /\ BatchSize \in Nat \ {0} /\ MaxEdits \in Nat /\ MaxSwitches \in Nat /\ MaxKills \in Nat

VARIABLES
    setting,    \* which of the settings this behaviour is in
    docs,       \* the structured files: the text of each entry
    archived,   \* a record with lifecycle.archived is among them
    file,       \* config/runtime.json
    select,     \* what each server, and the script, is doing with it
    up,         \* the remote provider answers
    index,      \* index.jsonl: [hash, cfg, vec] for some entries
    build,      \* what each builder is doing
    worker,     \* the configuration each search worker started with, or Off
    query,      \* a search of each worker: none, or between its two readings of
                \* the index, which is the "same" or has been "replaced" since
    alone,      \* history: nothing has disturbed the builder's run so far
    fell,       \* history: a batch fell back to hashing
    edits, switches, kills

indexVars == <<setting, docs, archived, file, select, up, index, build, worker, query, alone, fell, edits, switches, kills>>
others == <<docs, archived, up, edits, switches, kills>>

Off == <<>>
NoCall == [at |-> "idle", asked |-> <<>>, next |-> Template, before |-> <<>>, stops |-> FALSE]
Idle == [at |-> "idle", force |-> FALSE, runtime |-> [cfg |-> HashConfig, lenient |-> FALSE, key |-> FALSE],
         docs |-> [e \in Entry |-> Nothing], final |-> <<>>, pending |-> <<>>]

IndexInit ==
    /\ setting \in Settings
    /\ docs = setting.docs /\ archived = FALSE
    /\ file = setting.file /\ up = TRUE /\ index = <<>>
    /\ select = [v \in Server \cup {Script} |-> NoCall]
    /\ build = [b \in Builder |-> Idle]
    /\ worker = [v \in Server |-> Off] /\ query = [v \in Server |-> "none"]
    /\ alone = [b \in Builder |-> FALSE] /\ fell = FALSE
    /\ edits = 0 /\ switches = 0 /\ kills = 0

\* What the server and its workers read, and what a build reads: the server's
\* own root holds the file, and a build looks below the vault's, so that the
\* two are the same only when a variable says so.
ServerRuntime == ResolveEmbeddingRuntime(file, setting.env)
WorkerRuntime == ResolveEmbeddingRuntimePy(file, setting.env)
BuildRuntime == ResolveEmbeddingRuntime(IF setting.apart THEN Template ELSE file, setting.env)

Running(b) == build[b].at # "idle"

\* The index is replaced: everyone but b is disturbed, and so is a search.
Replace(b, i) ==
    /\ index' = i
    /\ alone' = [c \in Builder |-> c = b /\ alone[c]]
    /\ query' = [v \in Server |-> IF query[v] = "same" THEN "replaced" ELSE query[v]]

----------------------------------------------------------------------------
\* The providers.

\* An adapter the registry does not have is replaced by hashing.
Made(runtime) == IF runtime.cfg[1] = "huggingface" THEN HashConfig ELSE runtime.cfg

\* The transformer and gemini adapters hand the texts to Python.  getPool calls
\* require and spawnPythonWorker calls spawn, which exist only while the
\* registry is imported: they always fail.
HandsToPython(runtime) == runtime.cfg[1] \in {"transformer", "gemini"}

\* The remote one asks for a key first.
Answers(runtime) ==
    /\ ~HandsToPython(runtime)
    /\ Made(runtime) = HashConfig \/ (runtime.key /\ up)

\* An answer is a list of vectors with the index each is for, in any order.
Answer(c, texts) ==
    {[i \in DOMAIN texts |-> [index |-> p[i], vec |-> <<texts[p[i]], c>>]] :
        p \in {q \in [DOMAIN texts -> DOMAIN texts] : \A i, j \in DOMAIN texts : q[i] = q[j] => i = j}}

Vectors(answer) == [i \in DOMAIN answer |-> (CHOOSE a \in ToSet(answer) : a.index = i).vec]

----------------------------------------------------------------------------
\* A build.

\* Collect the documents.  A record with lifecycle.archived is collected
\* without fields, and that build will fail.
Start(b, force) ==
    /\ b \in setting.builders /\ ~Running(b)
    /\ build' = [build EXCEPT ![b] =
                   [at |-> IF archived THEN "doomed" ELSE "load", force |-> force,
                    runtime |-> [cfg |-> ConfigHash(BuildRuntime), lenient |-> BuildRuntime.lenient = "yes",
                                 key |-> HasKey(BuildRuntime, setting.env, Exported)],
                    docs |-> docs, final |-> <<>>, pending |-> <<>>]]
    /\ alone' = [alone EXCEPT ![b] = \A c \in Builder : ~Running(c)]
    /\ UNCHANGED <<setting, file, select, index, worker, query, fell, others>>

\* Fault: a vector of another configuration will do.
ReusableAnyConfig(b, e) ==
    /\ ~build[b].force
    /\ e \in DOMAIN index
    /\ index[e].hash = build[b].docs[e]

\* The vector there is was made by this configuration from this text.
Reusable(b, e) ==
    /\ ~build[b].force
    /\ e \in DOMAIN index
    /\ index[e].cfg = build[b].runtime.cfg /\ index[e].hash = build[b].docs[e]

Present(b) == {e \in Entry : build[b].docs[e] # Nothing}

Stop(b) == build' = [build EXCEPT ![b] = Idle]

\* Read the index and plan; without a pending batch the snapshot of what is
\* reused is the result.
Load(b) ==
    /\ build[b].at = "load"
    /\ LET kept == {e \in Present(b) : Reusable(b, e)}
           rest == Filter([e \in Entry |-> e], LAMBDA e : e \in Present(b) \ kept)
           final == [e \in kept |-> index[e]]
       IN  \/ rest = <<>> /\ Stop(b) /\ Replace(b, final)
           \/ /\ rest # <<>>
              /\ build' = [build EXCEPT ![b] = [@ EXCEPT !.at = "embed", !.final = final, !.pending = rest]]
              /\ UNCHANGED <<index, alone, query>>
    /\ UNCHANGED <<setting, file, select, worker, fell, others>>

\* The loop over the fields of the archived record ends the build.
LoadFails(b) ==
    /\ build[b].at = "doomed" /\ Stop(b) /\ alone' = [alone EXCEPT ![b] = FALSE]
    /\ UNCHANGED <<setting, file, select, index, worker, query, fell, others>>

Batch(b) == SubSeq(build[b].pending, 1, IF Len(build[b].pending) < BatchSize THEN Len(build[b].pending) ELSE BatchSize)

BatchTexts(b) == [i \in DOMAIN Batch(b) |-> build[b].docs[Batch(b)[i]]]

\* The entries of the batch, with vectors c made of their texts in answer.
Embedded(b, c, answer) ==
    LET batch == Batch(b)
        at(e) == CHOOSE i \in DOMAIN batch : batch[i] = e
    IN  [e \in ToSet(batch) |-> [hash |-> build[b].docs[e], cfg |-> c, vec |-> Vectors(answer)[at(e)]]]

\* Fault: the snapshot has only what was embedded.
SnapshotOfNew(old, new) == new

Snapshot(old, new) ==
    [e \in DOMAIN old \cup DOMAIN new |-> IF e \in DOMAIN new THEN new[e] ELSE old[e]]

\* A batch is in: write everything there is so far, and go on or end.
Write(b, new) ==
    LET final == Snapshot(build[b].final, new)
        rest == SubSeq(build[b].pending, Len(Batch(b)) + 1, Len(build[b].pending))
    IN  /\ Replace(b, final)
        /\ build' = [build EXCEPT ![b] = IF rest = <<>> THEN Idle ELSE [@ EXCEPT !.final = final, !.pending = rest]]

EmbedBatch(b) ==
    /\ build[b].at = "embed" /\ Answers(build[b].runtime)
    /\ LET made == Made(build[b].runtime) IN
       \E answer \in Answer(made, BatchTexts(b)) : Write(b, Embedded(b, made, answer))
    /\ UNCHANGED <<setting, file, select, worker, fell, others>>

\* No answer, after the retries: hash this batch where that is allowed,
FallBack(b) ==
    /\ build[b].at = "embed" /\ ~Answers(build[b].runtime) /\ build[b].runtime.lenient
    /\ LET texts == BatchTexts(b)
       IN  Write(b, Embedded(b, HashConfig, [i \in DOMAIN texts |-> [index |-> i, vec |-> <<texts[i], HashConfig>>]]))
    /\ fell' = TRUE
    /\ UNCHANGED <<setting, file, select, worker, others>>

\* and end the build where it is not.
EmbedFails(b) ==
    /\ build[b].at = "embed" /\ ~Answers(build[b].runtime) /\ ~build[b].runtime.lenient
    /\ Stop(b) /\ alone' = [alone EXCEPT ![b] = FALSE]
    /\ UNCHANGED <<setting, file, select, index, worker, query, fell, others>>

----------------------------------------------------------------------------
\* set_embedding_runtime and migrate-runtime-secrets.mjs.

Sets(v, job) == select' = [select EXCEPT ![v] = job]

\* updateEmbeddingRuntimeSelection up to its write, in one turn of the server:
\* other processes may come in between.
Select(v, request) ==
    /\ v \in setting.servers /\ select[v].at = "idle" /\ switches < MaxSwitches /\ switches' = switches + 1
    /\ request \in setting.requests /\ ~Refused(file, request)
    /\ Sets(v, [at |-> "write", asked |-> request, next |-> StripPlaintextApiKeys(Selection(file, request)),
               before |-> RestartSignature(ServerRuntime), stops |-> worker[v] # Off])
    /\ UNCHANGED <<setting, docs, archived, file, up, index, build, worker, query, alone, fell, edits, kills>>

\* The file is renamed into place, and a worker that was running is stopped if
\* the runtime is another one now.  (Its restart fails; the next search starts it.)
WriteSelection(v) ==
    /\ v \in Server /\ select[v].at = "write"
    /\ file' = select[v].next /\ alone' = [b \in Builder |-> FALSE]
    /\ Sets(v, IF select[v].stops /\ RestartSignature(ResolveEmbeddingRuntime(select[v].next, setting.env)) # select[v].before
               THEN [NoCall EXCEPT !.at = "stop"] ELSE NoCall)
    /\ UNCHANGED <<setting, index, build, worker, query, fell, others>>

StopWorker(v) ==
    /\ select[v].at = "stop" /\ Sets(v, NoCall)
    /\ worker' = [worker EXCEPT ![v] = Off] /\ query' = [query EXCEPT ![v] = "none"]
    /\ UNCHANGED <<setting, file, index, build, alone, fell, others>>

Secrets ==
    /\ setting.migrates /\ select[Script].at = "idle" /\ ContainsPlaintextApiKey(file)
    /\ Sets(Script, [NoCall EXCEPT !.at = "write", !.next = StripPlaintextApiKeys(MigrateValue(file))])
    /\ UNCHANGED <<setting, file, index, build, worker, query, alone, fell, others>>

WriteSecrets ==
    /\ select[Script].at = "write" /\ file' = select[Script].next /\ Sets(Script, NoCall)
    /\ alone' = [b \in Builder |-> FALSE]
    /\ UNCHANGED <<setting, index, build, worker, query, fell, others>>

----------------------------------------------------------------------------
\* The search workers.

StartWorker(v) ==
    /\ v \in setting.servers /\ worker[v] = Off /\ select[v].at # "write"
    /\ worker' = [worker EXCEPT ![v] = ConfigHash(WorkerRuntime)]
    /\ UNCHANGED <<setting, file, select, index, build, query, alone, fell, others>>

\* dense_scores reads the first entry only and compares configurations; then
\* the query is embedded, and then all of the index read again.
First == CHOOSE e \in DOMAIN index : \A f \in DOMAIN index : e <= f

Peek(v) ==
    /\ worker[v] # Off /\ query[v] = "none"
    /\ DOMAIN index # {} /\ index[First].cfg = worker[v] /\ query' = [query EXCEPT ![v] = "same"]
    /\ UNCHANGED <<setting, file, select, index, build, worker, alone, fell, others>>

Scan(v) ==
    /\ query[v] # "none" /\ query' = [query EXCEPT ![v] = "none"]
    /\ UNCHANGED <<setting, file, select, index, build, worker, alone, fell, others>>

----------------------------------------------------------------------------
\* The environment.

Edit(e, t) ==
    /\ e \in setting.edited /\ edits < MaxEdits /\ edits' = edits + 1
    /\ docs' = [docs EXCEPT ![e] = t] /\ alone' = [b \in Builder |-> FALSE]
    /\ UNCHANGED <<setting, archived, file, select, up, index, build, worker, query, fell, switches, kills>>

\* A tombstone becomes lifecycle.archived.
Migrate ==
    /\ setting.edited # {} /\ edits < MaxEdits /\ edits' = edits + 1
    /\ ~archived /\ archived' = TRUE /\ alone' = [b \in Builder |-> FALSE]
    /\ UNCHANGED <<setting, docs, file, select, up, index, build, worker, query, fell, switches, kills>>

Outage ==
    /\ setting.faults /\ switches < MaxSwitches /\ switches' = switches + 1
    /\ up' = ~up /\ UNCHANGED alone
    /\ UNCHANGED <<setting, docs, archived, file, select, index, build, worker, query, fell, edits, kills>>

Kill(b) ==
    /\ setting.faults /\ kills < MaxKills /\ kills' = kills + 1
    /\ Running(b) /\ Stop(b) /\ alone' = [alone EXCEPT ![b] = FALSE]
    /\ UNCHANGED <<setting, docs, archived, file, select, up, index, worker, query, fell, edits, switches>>

Step(b) == Load(b) \/ LoadFails(b) \/ EmbedBatch(b) \/ FallBack(b) \/ EmbedFails(b)

IndexNext ==
    \/ \E b \in Builder : Step(b) \/ Kill(b) \/ \E force \in BOOLEAN : Start(b, force)
    \/ \E v \in Server : WriteSelection(v) \/ StopWorker(v) \/ StartWorker(v) \/ Peek(v) \/ Scan(v)
    \/ \E v \in Server, request \in Requests : Select(v, request)
    \/ Secrets \/ WriteSecrets \/ Migrate \/ Outage
    \/ \E e \in Entry, t \in Text \cup {Nothing} : Edit(e, t)

IndexSpec == IndexInit /\ [][IndexNext]_indexVars

----------------------------------------------------------------------------
\* Properties.

\* Whatever is reused across builds, configurations and edits, the vector of an
\* entry was made of the text whose hash it carries, by the configuration it
\* names.
VectorsMatch == \A e \in DOMAIN index : index[e].vec = <<index[e].hash, index[e].cfg>>

\* A search looks at the configuration of the first entry only; still it does
\* not compare its query with vectors of another configuration, unless a batch
\* has ever fallen back to hashing, or the index is replaced between its two
\* readings.
Comparable(v) == \A e \in DOMAIN index : index[e].cfg = worker[v]
ScoresComparable == \A v \in Server : query[v] = "same" => (fell \/ Comparable(v))

\* Without the second exception it does not hold: a slow build of the former
\* configuration may do that.
ScoresAlwaysComparable == \A v \in Server : query[v] # "none" => (fell \/ Comparable(v))

\* A build without --force that nothing disturbs never takes a vector that is
\* up to date out of the index, whether it succeeds, fails half-way or is killed.
Usable(i, e) == e \in DOMAIN i /\ i[e].hash = docs[e] /\ i[e].cfg = ConfigHash(BuildRuntime)
KeepsUsable ==
    [][\A b \in Builder : alone[b] /\ ~build[b].force /\ build'[b] # build[b] =>
          \A e \in Entry : Usable(index, e) => Usable(index', e)]_indexVars

\* A build that nothing disturbs, and that does not fail, brings the index to
\* exactly the texts there are: nothing is missing, and what was deleted is out.
\* Where builds read the server's file, and no batch fell back, the server then
\* reports an index that is aligned with the selection.
Hashes == {index[e].cfg : e \in DOMAIN index}
Exact ==
    /\ DOMAIN index = {e \in Entry : docs[e] # Nothing}
    /\ \A e \in DOMAIN index : index[e].hash = docs[e]
    /\ setting.apart \/ fell \/ ServerRuntime.adapter = "huggingface" \/ index = <<>>
          \/ IndexState(ServerRuntime, Hashes) = "aligned"
FinishedExact == [][\A b \in Builder : Running(b) /\ ~Running(b)' /\ alone'[b] => Exact']_indexVars

\* When the server reports an aligned index, a worker that starts now does not
\* refuse it: two resolutions of the file, in two languages, come to the same,
\* as long as both know every adapter that the file names.
AlignedIsSearchable ==
    AdaptersKnown(file, setting.env) /\ IndexState(ServerRuntime, Hashes) = "aligned" =>
        Hashes = {ConfigHash(WorkerRuntime)}

\* With one server, no call of set_embedding_runtime under way and no migration
\* of keys, which may undo a selection that comes in between, a worker
\* that runs has the configuration of the file.
WorkerFollows ==
    Cardinality(setting.servers) = 1 /\ ~setting.migrates =>
        \A v \in setting.servers :
            select[v].at = "idle" /\ worker[v] # Off => worker[v] = ConfigHash(WorkerRuntime)

\* A profile or a provider that is selected takes effect: it is what the
\* configuration resolves to, unless variables override it, the profile names
\* no provider there is, or there is but one profile or one called default,
\* which a provider that is selected does not displace.
Effective(v) == ResolveEmbeddingRuntime(select[v].next, setting.env)
Selecting == IF setting.env = NoOverrides THEN {v \in setting.servers : select[v].at = "write"} ELSE {}
SelectionTakesEffect ==
    \A v \in Selecting :
        LET profile == select[v].asked.profile
            provider == select[v].asked.provider
        IN  /\ profile # Unset =>
                  /\ Effective(v).profile = profile
                  /\ LET named == select[v].next.profiles[profile].provider IN
                     named \in DOMAIN select[v].next.providers => Effective(v).provider = named
            /\ profile = Unset /\ provider # Unset /\ "default" \notin DOMAIN file.profiles /\ Cardinality(DOMAIN file.profiles) # 1 =>
                  Effective(v).provider = provider

\* Without the last exception it does not hold.
ProviderTakesEffect ==
    \A v \in Selecting :
        select[v].asked.profile = Unset /\ select[v].asked.provider # Unset =>
            Effective(v).provider = select[v].asked.provider

\* The catalog's line for the profile in use names the adapter and the model in use.
CatalogAgrees ==
    LET runtime == ServerRuntime IN
    setting.env = NoOverrides /\ runtime.profile # Unset /\ file.profiles[runtime.profile].provider \in DOMAIN file.providers =>
        CatalogProfile(file, runtime.profile) = [adapter |-> runtime.adapter, model |-> runtime.model]

\* A key that leaves the file is replaced by the name of a variable.  Does not
\* hold: selecting a runtime drops the keys, and a migration that comes later
\* finds none.
KeysReplaced ==
    [][\A n \in DOMAIN file.providers :
          file.providers[n].key # Unset /\ file'.providers[n].key = Unset => file'.providers[n].keyEnv # Unset]_indexVars
=============================================================================
