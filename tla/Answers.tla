------------------------------ MODULE Answers ------------------------------
(***************************************************************************)
(* The automatic answers of services/answers.py: a record in answers.json  *)
(* and a folder of files for each, and the ISOs of the catalogue that are  *)
(* linked to them (services/catalog.py).  A request works in steps, between*)
(* which a PC may read; a restart may cut it short at any of them.         *)
(***************************************************************************)
EXTENDS Lists, FiniteSetsExt

CONSTANTS Ids, IdsOf,         \* IdsOf[name] is the sequence of the ids of a name
          Isos,               \* the slugs of the catalogue
          Requests,           \* the threads that serve the web interface
          InitialAnswers,     \* the [records, files, links] there may be at first
          NewAnswers,         \* the [name, kind, profile, content] that are created
          Updates,            \* id |-> the changes of its record or of a file
          Patches,            \* slug |-> the changes of the links of the ISO
          MaxCreated, MaxRequests, MaxRestarts

MaxAnswers == 8               \* MAX_ANSWERS of catalog.py

VARIABLES records,    \* answers.json: id |-> [name, kind, profile, main, gen], gen
                      \* counting the answers in the order they were created
          files,      \* the folders: id |-> the files, name |-> the gen it is of
          links,      \* of each ISO in catalog.json: [answers, answer_id, manual]
          doing,      \* what each thread is at
          clashed,    \* history: two requests overlapped that must not
          created, requests, restarts

answerVars == <<records, files, links, doing, clashed, created, requests, restarts>>

Idle == [op |-> "idle"]
NoId == "none"
MainFileOf == [windows |-> "autounattend.xml", debian |-> "preseed.cfg",
               ubuntu |-> "user-data", redhat |-> "ks.cfg", generic |-> "risposta.txt"]
With(f, x, v) == [y \in DOMAIN f \union {x} |-> IF y = x THEN v ELSE f[y]]
Without(f, x) == [y \in DOMAIN f \ {x} |-> f[y]]

-----------------------------------------------------------------------------
(* The links of an ISO.                                                    *)

(* answers_of: a catalogue of before the lists has the default alone.      *)
AnswersOf(e) ==
    LET ids == IF e.answers = <<>> /\ e.answer_id # NoId THEN <<e.answer_id>>
               ELSE Once(e.answers)
    IN SubSeq(ids, 1, Min({Len(ids), MaxAnswers}))

\* What an ISO is linked to, what it never shows left aside.
LinkedIds(e) == ToSet(AnswersOf(e)) \union ({e.answer_id} \ {NoId})

(* answers_info, default_answer and resolve_answer: an answer that is gone *)
(* is not offered.  What is asked for is an id, "" for no answer, or       *)
(* "default" when the client asked for nothing.                            *)
AnswersInfo(e) == Among(AnswersOf(e), DOMAIN records)
DefaultAnswer(e) ==
    LET info == AnswersInfo(e) IN
    IF Contains(info, e.answer_id) THEN e.answer_id
    ELSE IF info # <<>> THEN info[1] ELSE NoId
\* Mutant: a start by hand is taken for one that asked for nothing.
ResolveAnswerOrDefault(e, requested) ==
    IF Contains(AnswersInfo(e), requested) THEN requested ELSE DefaultAnswer(e)
ResolveAnswer(e, requested) ==
    IF requested = "" THEN NoId
    ELSE IF Contains(AnswersInfo(e), requested) THEN requested ELSE DefaultAnswer(e)

(* detach_answer *)
Detached(e, aid) ==
    LET before == AnswersOf(e)
        after == Among(before, ToSet(before) \ {aid})
        first == IF after = <<>> THEN NoId ELSE after[1]
    IN IF after = before /\ e.answer_id # aid THEN e
       ELSE [e EXCEPT !.answers = after,
                      !.answer_id = IF @ # NoId /\ ~Contains(after, @) THEN first ELSE @]

(* _check_answer_ids and _apply_answers_patch.  A patch has some of the    *)
(* fields manual, answers and answer_id.                                   *)
Has(change, field) == field \in DOMAIN change
PatchOk(e, patch) ==
    /\ Has(patch, "answers") => /\ Len(patch.answers) <= MaxAnswers
                                /\ ToSet(patch.answers) \subseteq DOMAIN records
    /\ (Has(patch, "answer_id") /\ patch.answer_id # NoId) =>
          /\ patch.answer_id \in DOMAIN records
          /\ Has(patch, "answers") => Contains(patch.answers, patch.answer_id)
LinkedBy(e, patch) ==
    IF Has(patch, "answers") THEN Once(patch.answers)
    ELSE IF ~Has(patch, "answer_id") THEN AnswersOf(e)
    ELSE IF patch.answer_id = NoId THEN <<>>
    ELSE IF Contains(AnswersOf(e), patch.answer_id) THEN AnswersOf(e)
    ELSE LET q == <<patch.answer_id>> \o AnswersOf(e)
         IN SubSeq(q, 1, Min({Len(q), MaxAnswers}))
Patched(e, patch) ==
    LET manual == IF Has(patch, "manual") THEN patch.manual ELSE e.manual
        list == LinkedBy(e, patch)
        wanted == IF Has(patch, "answer_id") THEN patch.answer_id ELSE e.answer_id
        first == IF list = <<>> THEN NoId ELSE list[1]
    IN IF ~Has(patch, "answers") /\ ~Has(patch, "answer_id") THEN [e EXCEPT !.manual = manual]
       ELSE [answers |-> list, manual |-> manual,
             answer_id |-> IF Contains(list, wanted) THEN wanted ELSE first]

(* What the links are at first, and what is asked of the catalogue: ids,   *)
(* none of them a word that stands for something else, and no link to an   *)
(* answer that is not there.                                               *)
Links == [answers : Seq(Ids), answer_id : Ids \union {NoId}, manual : BOOLEAN]
ASSUME LinksAssumption ==
    /\ {NoId, "", "default"} \intersect Ids = {}
    /\ \A first \in InitialAnswers :
          /\ first.links \in [Isos -> Links]
          /\ \A s \in Isos : LinkedIds(first.links[s]) \subseteq DOMAIN first.records
    /\ \A s \in Isos : \A patch \in Patches[s] :
          /\ Has(patch, "answers") => patch.answers \in Seq(Ids)
          /\ Has(patch, "answer_id") => patch.answer_id \in Ids \union {NoId}
          /\ Has(patch, "manual") => patch.manual \in BOOLEAN

(* And what the answers are: of a kind there is, the files named and of the*)
(* answer their folder is of.                                              *)
IsRecord(rec) == /\ DOMAIN rec = {"name", "kind", "profile", "main", "gen"}
                 /\ rec.kind \in DOMAIN MainFileOf
ASSUME FilesAssumption ==
    /\ MaxRequests \in Nat
    /\ \A first \in InitialAnswers :
          /\ \A id \in DOMAIN first.records : IsRecord(first.records[id])
          /\ \A id \in DOMAIN first.files : \A n \in DOMAIN first.files[id] :
                /\ n # ""
                /\ id \in DOMAIN first.records => first.files[id][n] = first.records[id].gen
    /\ \A new \in NewAnswers : new.kind \in DOMAIN MainFileOf /\ IdsOf[new.name] \in Seq(STRING)
    /\ \A id \in Ids : \A change \in Updates[id] :
          Has(change, "filename") => change.filename # ""

-----------------------------------------------------------------------------
(* What a PC may be given.                                                 *)

(* _public: when the main file is gone, the first of those there are.      *)
FilesOf(id) == IF id \in DOMAIN files THEN DOMAIN files[id] ELSE {}
MainFile(id) ==
    LET names == FilesOf(id)
    IN IF records[id].main \in names \/ names = {} \/ records[id].main = "" THEN records[id].main
       ELSE CHOOSE n \in names : n = "autounattend.xml" \/ "autounattend.xml" \notin names

-----------------------------------------------------------------------------
(* Requests                                                                *)

AnswersInit ==
    /\ \E first \in InitialAnswers :
          /\ records = first.records /\ files = first.files /\ links = first.links
          /\ created = Cardinality(DOMAIN first.records)
    /\ doing = [r \in Requests |-> Idle]
    /\ requests = 0 /\ restarts = 0 /\ clashed = FALSE

(* No lock is held over two steps of a request, and the catalogue is saved *)
(* whole: a delete may come in the way of any other request, and a change  *)
(* of the links in that of another.                                        *)
Deleting(job) == job.op \in {"delete record", "detach"} \/ (job.op = "save" /\ job.patched = {})
Clashes(r, job) ==
    \E q \in Requests \ {r} :
        /\ doing[q] # Idle
        /\ Deleting(job) \/ Deleting(doing[q]) \/ (job.op = "save" /\ doing[q].op = "save")

Begin(r, job) ==
    /\ doing[r] = Idle /\ requests < MaxRequests
    /\ requests' = requests + 1
    /\ doing' = [doing EXCEPT ![r] = job]
    /\ clashed' = (clashed \/ Clashes(r, job))
    /\ UNCHANGED restarts
\* About to save a catalogue of which the entries "patched" are a user's.
Saving(patched, loaded) == [op |-> "save", patched |-> patched, links |-> loaded]
Go(r, at) == doing' = [doing EXCEPT ![r].op = at]
End(r) == doing' = [doing EXCEPT ![r] = Idle]
Counters == UNCHANGED <<clashed, requests, restarts>>

(* create: the first id of the name that neither a record nor a folder has;*)
(* then the folder with its files, then the record.                        *)
CreateFindId(r, new) ==
    LET ids == IdsOf[new.name]
        free == {i \in DOMAIN ids : ids[i] \notin DOMAIN records \union DOMAIN files}
    IN /\ created < MaxCreated /\ free # {}
       /\ Begin(r, [op |-> "create folder", id |-> ids[Min(free)], new |-> new, gen |-> 0])
       /\ UNCHANGED <<records, files, links, created>>
CreateFolder(r) ==
    LET d == doing[r]
        names == (IF d.new.content THEN {MainFileOf[d.new.kind]} ELSE {})
                 \union (IF d.new.kind = "ubuntu" THEN {"meta-data"} ELSE {})
    IN /\ d.op = "create folder"
       /\ IF d.id \in DOMAIN files
          THEN End(r) /\ UNCHANGED <<files, created>>            \* FileExistsError
          ELSE /\ files' = With(files, d.id, [n \in names |-> created + 1])
               /\ created' = created + 1
               /\ doing' = [doing EXCEPT ![r] = [op |-> "create record", id |-> d.id,
                                                 new |-> d.new, gen |-> created + 1]]
       /\ UNCHANGED <<records, links>> /\ Counters
CreateRecord(r) ==
    LET d == doing[r] IN
    /\ d.op = "create record"
    /\ records' = With(records, d.id,
                       [name |-> d.new.name, kind |-> d.new.kind, profile |-> d.new.profile,
                        main |-> MainFileOf[d.new.kind], gen |-> d.gen])
    /\ End(r)
    /\ UNCHANGED <<files, links, created>> /\ Counters

(* update: a change has some of the fields name, profile, content and      *)
(* filename.  The content is written first; then the rest of the record,   *)
(* which is made anew if it was deleted in between.                        *)
UpdateTarget(id, change) ==
    IF Has(change, "filename") THEN change.filename
    ELSE IF MainFile(id) # "" THEN MainFile(id)
    ELSE MainFileOf[records[id].kind]
UpdatePatch(id, change) ==
    LET target == UpdateTarget(id, change)
        keep == {"name", "profile"} \intersect DOMAIN change
        main == (Has(change, "content") /\ MainFile(id) = "")
                \/ (~Has(change, "content") /\ Has(change, "filename"))
    IN [f \in keep \union (IF main THEN {"main"} ELSE {}) |->
            IF f = "main" THEN target ELSE change[f]]
UpdateStart(r, id, change) ==
    LET target == UpdateTarget(id, change)
        folder == [n \in FilesOf(id) |-> files[id][n]]
    IN /\ id \in DOMAIN records
       /\ (Has(change, "filename") /\ ~Has(change, "content")) => target \in DOMAIN folder
       /\ files' = IF Has(change, "content")
                   THEN With(files, id, With(folder, target, records[id].gen)) ELSE files
       /\ Begin(r, [op |-> "update record", id |-> id, patch |-> UpdatePatch(id, change),
                    gen |-> records[id].gen])
       /\ UNCHANGED <<records, links, created>>
UpdateRecord(r) ==
    LET d == doing[r]
        was == IF d.id \in DOMAIN records THEN records[d.id]
               ELSE [name |-> d.id, kind |-> "generic", profile |-> "", main |-> "", gen |-> d.gen]
    IN /\ d.op = "update record"
       /\ records' = IF d.patch = <<>> THEN records
                     ELSE With(records, d.id, [f \in DOMAIN was |->
                              IF f \in DOMAIN d.patch THEN d.patch[f] ELSE was[f]])
       /\ End(r)
       /\ UNCHANGED <<files, links, created>> /\ Counters

(* delete: the folder, the record, and then what the catalogue has of it:  *)
(* detach_answer loads the catalogue and saves it when an entry changed.   *)
DeleteFolder(r, id) ==
    /\ id \in DOMAIN records
    /\ files' = Without(files, id)
    /\ Begin(r, [op |-> "delete record", id |-> id])
    /\ UNCHANGED <<records, links, created>>
DeleteRecord(r) ==
    /\ doing[r].op = "delete record"
    /\ records' = Without(records, doing[r].id)
    /\ Go(r, "detach")
    /\ UNCHANGED <<files, links, created>> /\ Counters
\* Mutant: the ISOs keep what they were linked to.
DetachNothing(r) ==
    doing[r].op = "detach" /\ End(r) /\ UNCHANGED <<records, files, links, created>> /\ Counters
Detach(r) ==
    LET left == [s \in Isos |-> Detached(links[s], doing[r].id)] IN
    /\ doing[r].op = "detach"
    /\ doing' = [doing EXCEPT ![r] = IF left = links THEN Idle ELSE Saving({}, left)]
    /\ UNCHANGED <<records, files, links, created>> /\ Counters

DeleteFile(r, id, name) ==
    /\ doing[r] = Idle /\ id \in DOMAIN records /\ id \in DOMAIN files /\ name \in DOMAIN files[id]
    /\ requests < MaxRequests /\ requests' = requests + 1
    /\ files' = [files EXCEPT ![id] = Without(@, name)]
    /\ UNCHANGED <<records, links, doing, clashed, created, restarts>>

(* update of catalog.py: the catalogue is loaded, checked and saved whole. *)
PatchLoad(r, s, patch) ==
    /\ PatchOk(links[s], patch)
    /\ Begin(r, Saving({s}, [links EXCEPT ![s] = Patched(@, patch)]))
    /\ UNCHANGED <<records, files, links, created>>
Save(r) ==
    /\ doing[r].op = "save"
    /\ links' = doing[r].links
    /\ End(r)
    /\ UNCHANGED <<records, files, created>> /\ Counters

Step(r) == \/ CreateFolder(r) \/ CreateRecord(r) \/ UpdateRecord(r)
           \/ DeleteRecord(r) \/ Detach(r) \/ Save(r)
Request(r) ==
    \/ \E new \in NewAnswers : CreateFindId(r, new)
    \/ \E id \in Ids : \/ DeleteFolder(r, id)
                       \/ \E change \in Updates[id] : UpdateStart(r, id, change)
                       \/ \E n \in {MainFileOf[k] : k \in DOMAIN MainFileOf} : DeleteFile(r, id, n)
    \/ \E s \in Isos : \E patch \in Patches[s] : PatchLoad(r, s, patch)

(* The service is killed and starts again, in the middle of a request.     *)
Restart ==
    /\ \E r \in Requests : doing[r] # Idle
    /\ restarts < MaxRestarts /\ restarts' = restarts + 1
    /\ doing' = [r \in Requests |-> Idle]
    /\ UNCHANGED <<records, files, links, clashed, created, requests>>

AnswersNext == Restart \/ \E r \in Requests : Request(r) \/ Step(r)

-----------------------------------------------------------------------------
(* Properties                                                              *)

(* An ISO comes to offer an answer only when somebody links it: never      *)
(* because an answer is created under the id of one that was deleted.  That*)
(* is so until a request is cut short (detach_answer), a delete overlaps   *)
(* another request, or a change of the links overlaps another: nothing in  *)
(* the code keeps the eight threads of the service from either.            *)
NobodyGainsAnAnswer ==
    [][(restarts' = 0 /\ ~clashed' /\ ~UNCHANGED <<records, links>>) => \A s \in Isos :
          LET was == ToSet(AnswersInfo(links[s]))
              is == ToSet(AnswersInfo(links[s])')
          IN is \subseteq was \/ \E r \in Requests : doing[r].op = "save" /\ s \in doing[r].patched
      ]_answerVars
=============================================================================
