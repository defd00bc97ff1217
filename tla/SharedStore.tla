---------------------------- MODULE SharedStore -----------------------------
(***************************************************************************)
(* The structured store and the scripts that read and write it as separate *)
(* operating system processes: the archiver with its lock, the rebuild of  *)
(* the memory layers, the promotion scorer and resolver, the canonical     *)
(* writer, and notes and dreams that arrive meanwhile.  Each process runs  *)
(* one script at a time and may be killed between any two file operations. *)
(*                                                                         *)
(* A script's reads of several files before its first write are one step.  *)
(* Scripts that only append (or read) elsewhere are left out, as are the   *)
(* files no script modelled here writes; the session files of other agents *)
(* are taken to be absent.                                                 *)
(***************************************************************************)
EXTENDS MemoryRecord, TLC

CONSTANTS Process,      \* operating system processes that run scripts
          Settings,     \* bounds what happens: per behaviour, who runs what, who is
                        \* killed, and which dreams and facts arrive
          Notes,        \* ids of the notes in inbox/*.md
          Dreams,       \* ids of what run-memory-dream.ps1 appends
          Facts,        \* ids of facts that memory_write is given
          Commands,     \* ids of those it is given on the command line
          Malformed,    \* facts that do not pass validateFact
          Sessions,     \* ids of what the Stop hook appends to projects
          Failed,       \* those of them that record a failed extraction
          Show,         \* the most facts a boot or CONTEXT.md shows
          Profile,      \* the profile of each id, see MemoryRecord
          TierMax,      \* the budget of each tier
          Times,        \* the seconds at which something happens
          MaxCopies,    \* bounds how often a client retries a fact
          Alike,        \* pairs of ids whose texts overlap enough to conflict
          Nobody        \* no lock

Id == Notes \cup Dreams \cup Facts \cup Commands \cup Sessions

LockTtl == 30 * 60

\* In the order of the directory listing.
File == {"dream", "session", "shared"}
Listing(file) == file["dream"] \o file["session"] \o file["shared"]
FirstOf(files) == CHOOSE f \in files : ("dream" \in files => f = "dream") /\ (files # {f} => f # "shared")

Job == {"archive", "build", "promote", "write", "command"}

ASSUME StoreAssumption ==
    /\ Notes \cap Dreams = {} /\ Notes \cap Facts = {} /\ Dreams \cap Facts = {}
    /\ Sessions \cap (Notes \cup Dreams \cup Facts) = {}
    /\ Commands \cap (Notes \cup Dreams \cup Facts \cup Sessions) = {}
    /\ Malformed \subseteq Facts \cup Commands /\ Failed \subseteq Sessions /\ Show \in Nat \ {0}
    /\ Times \subseteq Nat /\ 0 \in Times
    /\ MaxCopies \in Nat \ {0} /\ Nobody \notin Process
    /\ \A id \in Id : Profile[id].conf \in Nat
    /\ Settings \subseteq [jobs : [Process -> SUBSET Job],
                           mortal : SUBSET Process, arrives : SUBSET (Id \ Notes)]

ASSUME NobodyIsNoLock == \A p \in Process, t \in Times, b \in BOOLEAN :
                            Nobody # [owner |-> p, start |-> t, written |-> b]

VARIABLES
    setting,    \* which of the settings this behaviour is in
    now,        \* the clock
    file,       \* structured/*.jsonl
    projects,   \* projects/*.jsonl, one sequence
    notes,      \* the records parsed from inbox/*.md
    manifest,   \* ids in archive-manifest.jsonl
    lock,       \* archival.lock: Nobody, or its owner, start and whether it is written yet
    queue,      \* promotion-queue.jsonl
    proc,       \* what each process is doing
    acked,      \* facts whose write was acknowledged
    forced      \* history: some archiver took a lock that was not its own

vars == <<setting, now, file, projects, notes, manifest, lock, queue, proc, acked, forced>>

\* at: the next step; f, lines: the file last read and what it held; plan: per
\* file the ids to archive, or the records to write; todo: files not done yet;
\* more: records still to append or to merge.
NoPlan == [f \in File |-> {}]
Idle == [at |-> "idle", f |-> "shared", lines |-> <<>>, plan |-> NoPlan, todo |-> {}, more |-> <<>>]

Init ==
    /\ setting \in Settings
    /\ now = 0 /\ file = [f \in File |-> <<>>] /\ projects = <<>> /\ notes = <<>>
    /\ manifest = {} /\ lock = Nobody /\ queue = <<>> /\ acked = {} /\ forced = FALSE
    /\ proc = [p \in Process |-> Idle]

At(p, where) == proc[p].at = where
Idles(p, job) == At(p, "idle") /\ job \in setting.jobs[p]
Goto(p, where) == proc' = [proc EXCEPT ![p].at = where]
Done(p) == proc' = [proc EXCEPT ![p] = Idle]

Lesser(m, n) == IF m < n THEN m ELSE n
Copies(lines, id) == Cardinality({i \in DOMAIN lines : lines[i].id = id})

----------------------------------------------------------------------------
\* The archiver's lock.

LockExpired == lock.written /\ now - lock.start >= LockTtl

\* acquireLock, first half: with no lock file, create one; with a live one,
\* give up (no step); with one that is expired or cannot be parsed, force.
StartArchiver(p) ==
    /\ Idles(p, "archive")
    /\ \/ lock = Nobody /\ Goto(p, "create")
       \/ lock # Nobody /\ (~lock.written \/ LockExpired) /\ Goto(p, "unlink")
    /\ UNCHANGED <<setting, now, file, projects, notes, manifest, lock, queue, acked, forced>>

\* Fault: the lock file is opened without O_EXCL.
CreateShared(p) ==
    /\ At(p, "create")
    /\ lock' = [owner |-> p, start |-> now, written |-> FALSE]
    /\ Goto(p, "fill")
    /\ UNCHANGED <<setting, now, file, projects, notes, manifest, queue, acked, forced>>

\* writeFileSync with wx is an open that creates the file and a write that
\* fills it.  A process that loses reads the file after all: gone or half
\* written makes JSON.parse fail, which forces.
Create(p) ==
    /\ At(p, "create")
    /\ \/ /\ lock = Nobody
          /\ lock' = [owner |-> p, start |-> now, written |-> FALSE]
          /\ Goto(p, "fill")
       \/ lock # Nobody /\ UNCHANGED lock /\ Goto(p, "reread")
    /\ UNCHANGED <<setting, now, file, projects, notes, manifest, queue, acked, forced>>

Reread(p) ==
    /\ At(p, "reread")
    /\ IF lock = Nobody THEN Goto(p, "unlink")
       ELSE IF lock.written /\ ~LockExpired THEN Done(p) ELSE Goto(p, "unlink")
    /\ UNCHANGED <<setting, now, file, projects, notes, manifest, lock, queue, acked, forced>>

\* writeLock with force: unlink whatever is there, then create.
Unlink(p) ==
    /\ At(p, "unlink") /\ lock' = Nobody /\ forced' = TRUE /\ Goto(p, "recreate")
    /\ UNCHANGED <<setting, now, file, projects, notes, manifest, queue, acked>>

Recreate(p) ==
    /\ At(p, "recreate")
    /\ \/ /\ lock = Nobody
          /\ lock' = [owner |-> p, start |-> now, written |-> FALSE]
          /\ Goto(p, "fill")
       \/ lock # Nobody /\ UNCHANGED lock /\ Done(p)
    /\ UNCHANGED <<setting, now, file, projects, notes, manifest, queue, acked, forced>>

\* The write goes to the file that was opened, also when it has been unlinked.
Fill(p) ==
    /\ At(p, "fill") /\ Goto(p, "scan")
    /\ lock' = IF lock # Nobody /\ lock.owner = p THEN [lock EXCEPT !.written = TRUE] ELSE lock
    /\ UNCHANGED <<setting, now, file, projects, notes, manifest, queue, acked, forced>>

\* releaseLock: only a lock that names this process is unlinked.
Release(p) ==
    /\ At(p, "evict") /\ proc[p].todo = {}
    /\ IF lock # Nobody /\ lock.written /\ lock.owner = p THEN proc' = [proc EXCEPT ![p] = [Idle EXCEPT !.at = "unlock"]] ELSE Done(p)
    /\ UNCHANGED <<setting, now, file, projects, notes, manifest, lock, queue, acked, forced>>

Unlock(p) ==
    /\ At(p, "unlock") /\ lock' = Nobody /\ Done(p)
    /\ UNCHANGED <<setting, now, file, projects, notes, manifest, queue, acked, forced>>

----------------------------------------------------------------------------
\* The archiver's phases.  (Its third, simplifyMemory, never selects a record.)

Plan(p, ids, where) ==
    proc' = [proc EXCEPT ![p].at = where, ![p].plan = ids, ![p].todo = {f \in File : ids[f] # {}}]

Scan(p) ==
    /\ At(p, "scan")
    /\ Plan(p, [f \in File |-> EligibleIds(file[f], now)], "expire")
    /\ UNCHANGED <<setting, now, file, projects, notes, manifest, lock, queue, acked, forced>>

\* main's second phase takes the evicted ids out of whichever files hold them.
Budget(p) ==
    /\ At(p, "expire") /\ proc[p].todo = {}
    /\ LET evicted == OverBudget(Listing(file), Profile, TierMax)
       IN  Plan(p, [f \in File |-> evicted], "evict")
    /\ UNCHANGED <<setting, now, file, projects, notes, manifest, lock, queue, acked, forced>>

\* Fault: the manifest is not written before the file is.
RecordLater(p, f) ==
    /\ proc[p].at \in {"expire", "evict"} /\ f \in proc[p].todo /\ f = FirstOf(proc[p].todo)
    /\ proc' = [proc EXCEPT ![p].at = IF @ = "expire" THEN "rewrite expired" ELSE "rewrite evicted",
                            ![p].f = f, ![p].lines = file[f], ![p].todo = @ \ {f}]
    /\ UNCHANGED <<setting, now, file, projects, notes, manifest, lock, queue, acked, forced>>

\* archiveRecordsFromFile: read the file, put what is found in the manifest
\* (which no script reads),
Record(p, f) ==
    /\ proc[p].at \in {"expire", "evict"} /\ f \in proc[p].todo /\ f = FirstOf(proc[p].todo)
    /\ manifest' = manifest \cup (IdsOf(file[f]) \cap proc[p].plan[f])
    /\ proc' = [proc EXCEPT ![p].at = IF @ = "expire" THEN "rewrite expired" ELSE "rewrite evicted",
                            ![p].f = f, ![p].lines = file[f], ![p].todo = @ \ {f}]
    /\ UNCHANGED <<setting, now, file, projects, notes, lock, queue, acked, forced>>

\* and rename a copy without it over the file, if anything was found.
Rewrite(p) ==
    /\ proc[p].at \in {"rewrite expired", "rewrite evicted"}
    /\ LET ids == proc[p].plan[proc[p].f] IN
       file' = IF IdsOf(proc[p].lines) \cap ids = {} THEN file
               ELSE [file EXCEPT ![proc[p].f] = Kept(proc[p].lines, ids)]
    /\ proc' = [proc EXCEPT ![p].at = IF @ = "rewrite expired" THEN "expire" ELSE "evict",
                            ![p].lines = <<>>, ![p].f = "shared", ![p].plan[proc[p].f] = {}]
    /\ UNCHANGED <<setting, now, projects, notes, manifest, lock, queue, acked, forced>>

Archive(p) ==
    \/ StartArchiver(p) \/ Create(p) \/ Reread(p) \/ Unlink(p) \/ Recreate(p) \/ Fill(p)
    \/ Scan(p) \/ Budget(p) \/ Rewrite(p)
    \/ Release(p) \/ Unlock(p) \/ \E f \in File : Record(p, f)

----------------------------------------------------------------------------
\* build-memory-layers.js.

\* deduplicateSharedInbox: notes first, except those whose content is in the
\* store with a time less than 30 seconds ago, then dreams not seen yet.
SharedInbox ==
    LET dreams == [i \in DOMAIN file["dream"] |->
                      CoerceStructuredRecord(file["dream"][i], Profile[file["dream"][i].id])]
        fresh == Filter(notes, LAMBDA r : ~RecentDuplicate(r.id, file["shared"] \o dreams, now))
    IN  fresh \o LastWins(Filter(dreams, LAMBDA r : r.id \notin IdsOf(fresh)))

\* main up to its first await: everything it reads but session-memory.
StartBuild(p) ==
    /\ Idles(p, "build")
    /\ proc' = [proc EXCEPT ![p].at = "build shared", ![p].lines = SharedInbox, ![p].more = projects]
    /\ UNCHANGED <<setting, now, file, projects, notes, manifest, lock, queue, acked, forced>>

\* writeText truncates the file and then writes the body at its start.
Truncate(p, f, here, next) ==
    /\ At(p, here) /\ file' = [file EXCEPT ![f] = <<>>] /\ Goto(p, next)
    /\ UNCHANGED <<setting, now, projects, notes, manifest, lock, queue, acked, forced>>

FillFile(p, f, here, next) ==
    /\ At(p, here)
    /\ file' = IF proc[p].lines = <<>> THEN file ELSE [file EXCEPT ![f] = proc[p].lines]
    /\ proc' = [proc EXCEPT ![p].at = next, ![p].lines = <<>>]
    /\ UNCHANGED <<setting, now, projects, notes, manifest, lock, queue, acked, forced>>

\* session-memory keeps what it has and gains the project records that are new.
SessionMemory(projectRecords) ==
    file["session"] \o Filter(projectRecords, LAMBDA r : r.id \notin IdsOf(file["session"]))

ReadSession(p) ==
    /\ At(p, "build session")
    /\ proc' = [proc EXCEPT ![p].at = "truncate session", ![p].lines = SessionMemory(proc[p].more),
                            ![p].more = <<>>]
    /\ UNCHANGED <<setting, now, file, projects, notes, manifest, lock, queue, acked, forced>>

Build(p) ==
    \/ StartBuild(p)
    \/ Truncate(p, "shared", "build shared", "fill shared")
    \/ FillFile(p, "shared", "fill shared", "build session")
    \/ ReadSession(p)
    \/ Truncate(p, "session", "truncate session", "fill session")
    \/ FillFile(p, "session", "fill session", "idle")

----------------------------------------------------------------------------
\* Promotion.

\* The scorer replaces the queue.  (Bounded: it runs on an empty queue only.)
Score(p) ==
    /\ Idles(p, "promote")
    /\ queue' = PromotionQueue(Listing(file), Profile, now, Alike)
    /\ queue = <<>> /\ queue' # queue
    /\ UNCHANGED <<setting, now, file, projects, notes, manifest, lock, proc, acked, forced>>

\* findRecordSourceFile: the first file that holds the id.
SourceFile(id) ==
    CHOOSE f \in File : /\ id \in IdsOf(file[f])
                        /\ f = "session" => id \notin IdsOf(file["dream"])
                        /\ f = "shared" => id \notin IdsOf(file["dream"]) \cup IdsOf(file["session"])

LoadStructuredRecords == Listing(file)

\* The resolver: settle the queue, look the records up (the last file that has
\* one wins) and group what is to be written by the first file that has one.
Resolve(p) ==
    /\ Idles(p, "promote") /\ queue # <<>>
    /\ LET all == LoadStructuredRecords
           ids == {id \in IdsOf(queue) \cap IdsOf(all) : ResolvedTier(queue, all, id) # 0}
           changes == [f \in File |-> {Promote(LastOf(all, id), ResolvedTier(queue, all, id)) :
                                        id \in {x \in ids : SourceFile(x) = f}}]
       IN  /\ ids # {}
           /\ proc' = [proc EXCEPT ![p].at = "promote", ![p].plan = changes,
                                ![p].todo = {f \in File : changes[f] # {}}]
    /\ UNCHANGED <<setting, now, file, projects, notes, manifest, lock, queue, acked, forced>>

PromoteRead(p, f) ==
    /\ At(p, "promote") /\ f \in proc[p].todo /\ f = FirstOf(proc[p].todo)
    /\ proc' = [proc EXCEPT ![p].at = "promote write", ![p].f = f, ![p].lines = file[f],
                            ![p].todo = @ \ {f}]
    /\ UNCHANGED <<setting, now, file, projects, notes, manifest, lock, queue, acked, forced>>

\* applyResolvedPromotions replaces every line that has the id of a change.
Changed(lines, changes) ==
    [i \in DOMAIN lines |-> IF lines[i].id \in {c.id : c \in changes}
                            THEN CHOOSE c \in changes : c.id = lines[i].id ELSE lines[i]]

PromoteWrite(p) ==
    /\ At(p, "promote write")
    /\ file' = [file EXCEPT ![proc[p].f] = Changed(proc[p].lines, proc[p].plan[proc[p].f])]
    /\ IF proc[p].todo = {} THEN Done(p)
       ELSE proc' = [proc EXCEPT ![p].at = "promote", ![p].lines = <<>>, ![p].plan[proc[p].f] = {}]
    /\ UNCHANGED <<setting, now, projects, notes, manifest, lock, queue, acked, forced>>

Promotion(p) ==
    \/ Score(p) \/ Resolve(p) \/ PromoteWrite(p)
    \/ \E f \in File : PromoteRead(p, f)

----------------------------------------------------------------------------
\* What is read from projects (mcp-memory-tools.js and generate-context.js).

\* Fault: the newest lines are taken before the failures are left out.
CutThenFilter(limit) ==
    SelectSeq(Reverse(SubSeq(projects, 1 + Len(projects) - Lesser(limit, Len(projects)), Len(projects))),
              LAMBDA r : r.id \notin Failed)

\* readProjectFacts and loadRecentFacts: the newest facts, failures left out.
ReadProjectFacts(limit) ==
    LET facts == Reverse(Filter(projects, LAMBDA r : r.id \notin Failed))
    IN  SubSeq(facts, 1, Lesser(limit, Len(facts)))

\* memory_boot: as many as are asked for, cut where the prompt gets too long.
BootContext(topK) == LET facts == ReadProjectFacts(topK) IN SubSeq(facts, 1, Lesser(Show, Len(facts)))

\* collectSearchDocuments, and the ids memory_search and memory_query may
\* answer for a query: as many of those that match as are asked for.
SearchDocuments == IdsOf(Filter(projects, LAMBDA r : r.id \notin Failed))
SearchAnswers(matching, topK) ==
    {ids \in SUBSET (SearchDocuments \cap matching) :
        Cardinality(ids) = Lesser(topK, Cardinality(SearchDocuments \cap matching))}

\* generateContext: what CONTEXT.md is given for agents that cannot call tools.
ContextFacts == ReadProjectFacts(Show)

----------------------------------------------------------------------------
\* What comes from outside.

\* A batch with a malformed fact is refused before anything is written.
Valid(facts) == facts \cap Malformed = {}

EachValid(facts) == \A id \in facts : id \notin Malformed

\* writeCanonicalMemory takes a batch; a fact that comes back after a failure
\* keeps the id its client chose.
StartWrite(p, facts) ==
    /\ Idles(p, "write") /\ facts \cap acked = {} /\ facts # {} /\ EachValid(facts) /\ IsFiniteSet(facts)
    /\ \A id \in facts : Copies(file["shared"], id) < MaxCopies /\ Copies(projects, id) < MaxCopies
    /\ proc' = [proc EXCEPT ![p].at = "write", ![p].plan["shared"] = facts,
           ![p].more = LET order == SetToSeq(facts)
                       IN  [i \in DOMAIN order |-> BareRecord(order[i], now)]]
    /\ UNCHANGED <<setting, now, file, projects, notes, manifest, lock, queue, acked, forced>>

WriteCanonical(p) ==
    /\ At(p, "write") /\ proc[p].more # <<>>
    /\ file' = [file EXCEPT !["shared"] = Append(@, Head(proc[p].more))]
    /\ Goto(p, "project")
    /\ UNCHANGED <<setting, now, projects, notes, manifest, lock, queue, acked, forced>>

\* Fault: the projection is skipped.
ProjectionSkipped(p) ==
    /\ At(p, "project")
    /\ proc' = [proc EXCEPT ![p].at = "write", ![p].more = Tail(@)]
    /\ UNCHANGED <<setting, now, file, projects, notes, manifest, lock, queue, acked, forced>>

WriteProjection(p) ==
    /\ At(p, "project")
    /\ projects' = Append(projects, Head(proc[p].more))
    /\ proc' = [proc EXCEPT ![p].at = "write", ![p].more = Tail(@)]
    /\ UNCHANGED <<setting, now, file, notes, manifest, lock, queue, acked, forced>>

Acknowledge(p) ==
    /\ At(p, "write") /\ proc[p].more = <<>>
    /\ acked' = acked \cup proc[p].plan["shared"] /\ Done(p)
    /\ UNCHANGED <<setting, now, file, projects, notes, manifest, lock, queue, forced>>

\* memory_write of the command line appends to projects alone, each fact under
\* an id of its own.  runCli does not wait for it: what it prints, at once, is
\* an empty object, and nothing is acknowledged.
StartCommand(p, facts) ==
    /\ Idles(p, "command") /\ facts \cap IdsOf(projects) = {} /\ facts # {} /\ Valid(facts) /\ IsFiniteSet(facts)
    /\ proc' = [proc EXCEPT ![p].at = "command", ![p].plan["shared"] = facts,
           ![p].more = LET order == SetToSeq(facts)
                       IN  [i \in DOMAIN order |-> BareRecord(order[i], now)]]
    /\ UNCHANGED <<setting, now, file, projects, notes, manifest, lock, queue, acked, forced>>

AppendFact(p) ==
    /\ At(p, "command") /\ proc[p].more # <<>>
    /\ projects' = Append(projects, Head(proc[p].more))
    /\ proc' = [proc EXCEPT ![p].more = Tail(@)]
    /\ UNCHANGED <<setting, now, file, notes, manifest, lock, queue, acked, forced>>

EndCommand(p) ==
    /\ At(p, "command") /\ proc[p].more = <<>> /\ Done(p)
    /\ UNCHANGED <<setting, now, file, projects, notes, manifest, lock, queue, acked, forced>>

Command(p) ==
    \/ \E facts \in SUBSET (Commands \cap setting.arrives) : StartCommand(p, facts)
    \/ AppendFact(p) \/ EndCommand(p)

Write(p) ==
    \/ \E facts \in SUBSET (Facts \cap setting.arrives) : StartWrite(p, facts)
    \/ WriteCanonical(p) \/ WriteProjection(p) \/ Acknowledge(p)

\* The Stop hook (ExtractionQueue) appends facts, or that there are none.
Hook(id) ==
    /\ id \in setting.arrives /\ id \notin IdsOf(projects)
    /\ projects' = Append(projects, BareRecord(id, now))
    /\ UNCHANGED <<setting, now, file, notes, manifest, lock, queue, proc, acked, forced>>

Note(id) ==
    /\ id \notin IdsOf(notes)
    /\ notes' = Append(notes, BuildRecord(id, now, Profile[id]))
    /\ UNCHANGED <<setting, now, file, projects, manifest, lock, queue, proc, acked, forced>>

Dream(id) ==
    /\ id \in setting.arrives /\ id \notin IdsOf(Listing(file)) \cup manifest
    /\ file' = [file EXCEPT !["dream"] = Append(@, BareRecord(id, now))]
    /\ UNCHANGED <<setting, now, projects, notes, manifest, lock, queue, proc, acked, forced>>

Tick(t) ==
    /\ t \in Times /\ t > now /\ now' = t
    /\ UNCHANGED <<setting, file, projects, notes, manifest, lock, queue, proc, acked, forced>>

\* A kill.  (An error in the archiver's main still reaches its finally clause.)
Crash(p) ==
    /\ p \in setting.mortal /\ proc[p].at \notin {"idle", "killed"}
    /\ proc' = [proc EXCEPT ![p] = [Idle EXCEPT !.at = "killed"]]
    /\ UNCHANGED <<setting, now, file, projects, notes, manifest, lock, queue, acked, forced>>

Revive(p) ==
    /\ At(p, "killed") /\ Done(p)
    /\ UNCHANGED <<setting, now, file, projects, notes, manifest, lock, queue, acked, forced>>

Next ==
    \/ \E p \in Process : \/ Archive(p) \/ Build(p) \/ Promotion(p) \/ Write(p) \/ Command(p)
                          \/ Crash(p) \/ Revive(p)
    \/ \E id \in Sessions : Hook(id)
    \/ \E id \in Notes : Note(id)
    \/ \E id \in Dreams : Dream(id)
    \/ \E t \in Times : Tick(t)

Spec == Init /\ [][Next]_vars

\* Scripts that run go on, and builds are started again and again.
Step(p) ==
    \/ Create(p) \/ Reread(p) \/ Unlink(p) \/ Recreate(p) \/ Fill(p) \/ Scan(p) \/ Budget(p)
    \/ Rewrite(p) \/ Release(p) \/ Unlock(p) \/ ReadSession(p)
    \/ Truncate(p, "shared", "build shared", "fill shared")
    \/ FillFile(p, "shared", "fill shared", "build session")
    \/ Truncate(p, "session", "truncate session", "fill session")
    \/ FillFile(p, "session", "fill session", "idle")
    \/ PromoteWrite(p) \/ WriteCanonical(p) \/ WriteProjection(p) \/ Acknowledge(p) \/ Revive(p)
    \/ AppendFact(p) \/ EndCommand(p)
    \/ \E f \in File : Record(p, f) \/ PromoteRead(p, f)

FairSpec ==
    /\ Spec
    /\ \A p \in Process : WF_vars(Step(p))
    /\ SF_vars(\E p \in Process : StartBuild(p))

----------------------------------------------------------------------------
\* Properties.

Inside(p) == proc[p].at \in {"scan", "expire", "evict", "rewrite expired", "rewrite evicted", "unlock"}

\* TypeOK: every variable keeps its type.
TypeOK ==
    LET Rec == [id : Id, t : Times, tier : 0..5, expires : Nat, promos : 0..2] IN
    /\ now \in Times /\ manifest \subseteq Id /\ acked \subseteq Facts /\ forced \in BOOLEAN
    /\ \A f \in File : \A i \in DOMAIN file[f] : file[f][i] \in Rec
    /\ \A i \in DOMAIN projects : projects[i] \in Rec
    /\ \A i \in DOMAIN notes : notes[i] \in Rec /\ notes[i].id \in Notes
    /\ lock = Nobody \/ lock \in [owner : Process, start : Times, written : BOOLEAN]
    /\ \A p \in Process : proc[p].todo \subseteq File

\* Two archivers never run at once unless one of them took over a lock.
OneArchiverUnlessForced ==
    forced \/ \A p, q \in Process : Inside(p) /\ Inside(q) => p = q

\* When an archiver or the promoter renames a rewritten file into place, an id
\* that leaves the file is in the manifest, or came after the file was read.
RewriteLosesOnlyLate ==
    [][\A p \in Process, f \in File :
          /\ proc[p].at \in {"rewrite expired", "rewrite evicted", "promote write"}
          /\ proc'[p].at # "killed" /\ proc'[p] # proc[p] /\ proc[p].f = f
          => \A id \in IdsOf(file[f]) \ IdsOf(file'[f]) :
                id \in manifest \/ id \notin IdsOf(proc[p].lines)]_vars

\* Of memories that conflict, directly or through others, the resolver settles
\* on one: it promotes no two of them.
OneWinner ==
    LET resolved == ResolveConflicts(queue, Listing(file)).resolved
    IN  \A i \in DOMAIN queue :
            Cardinality({queue[j].id : j \in {k \in resolved : queue[k].id \in Component(queue, queue[i].id)}}) = 1

\* Once scripts are no longer killed, builds, where there are any, bring every acknowledged fact into
\* the session memory and every note into the shared inbox, again and again.
BuildsDeliver ==
    (\E p \in Process : "build" \in setting.jobs[p]) /\ <>[](\A p \in Process : ~At(p, "killed")) =>
        /\ \A id \in Facts : id \in acked ~> id \in IdsOf(file["session"])
        /\ \A id \in Notes : id \in IdsOf(notes) ~> id \in IdsOf(file["shared"])

\* A fact whose write was acknowledged is found by every later search that asks
\* for it, and shown by every later boot or CONTEXT.md with room for it and all
\* the facts that came after; failed extractions take no room.
AckedIsServed ==
    \A id \in acked :
        /\ SearchAnswers({id}, 1) = {{id}}
        /\ \A i \in DOMAIN projects :
              projects[i].id = id /\ Cardinality({j \in i..Len(projects) : projects[j].id \notin Failed}) <= Show
              => id \in IdsOf(BootContext(Show)) \cap IdsOf(ContextFacts)

\* A failed extraction stays out of the layers; the build does not look.
FailureNotMerged == IdsOf(file["session"]) \cap Failed = {}
=============================================================================
