# Scholarli: a TLA+ verification project

Scholarli is an iOS app (Swift, UIKit, Firebase Firestore) for students. The
repository holds its sign-up flow and little else of its own: a student enters a
name, picks a password and a school, selects courses for a schedule, and creates
a course or a teacher that is missing. That code is under
`src/Scholarli/Scholarli`; file names below are given without the directory
`User Interface/Setup and Intro/Sign Up Process`.

By far the most lines are the libraries checked in under `src/Scholarli/Pods`.
One of them is modelled too: `leveldb-library`, in which Firestore keeps, on the
device, the documents it has cached and the writes that the backend has not
taken yet. The app calls `setData` without a completion and relies on that
store, and leveldb's own threads, files and crashes are where concurrency in
this repository is.

What makes the app's code hard to test: every screen talks to Firestore through
callbacks that run on the main queue whenever the answer comes, in any order or
never, while the user goes on tapping; data are copied between screens,
dictionaries, labels and table rows by hand; a table or a picker shows what it
was given at its last reload. What makes leveldb hard to test: writers queue up
and write for one another with the mutex released, a background thread replaces
memtables and files under readers, any file operation can fail, and a crash can
fall between any two of them.

## Inventory

| Component | State | Operations | Hard behaviour |
|---|---|---|---|
| `UserInfoViewController` | text fields, account type, entries of the global `newUserData` | Continue, picker, `verify` | the name is verified by a query; the fields can be edited, and the screen covered, while it runs |
| `SecurityViewController` | two password fields, `newUserData["password"]` | end of editing, Continue | the entry is saved at some events only, the fields change at others |
| `SchoolSelectorViewController` | list of schools, `currentSelection`, `newUserData["school"]` | school list answer, picker, `updateNewUser`, Continue | one query per selection, answered in any order, each saving its own school |
| `ChooseClassesViewController` | school with course list, schedule, search results, table rows, labels | tap, search, scroll, "add a class", Continue | filled in by a callback of the screen before it; table and data drift apart |
| `AddClassViewController` | two choices and their copy in `classData`, picker, dialog, alerts, `scheduleToReturn` | fields, wheels, dialog for a teacher, create, cancel | piecewise copies; animation completions; round trips to ChooseClasses |
| `FinalSetupViewController` | none | none | none |
| `Objects.swift`, `Types.swift` | value types, `data` / `init(data:)` | `getCourseList`, `getFaculty`, document creation | encoder and decoder disagree; completions that are never called; writes nobody hears of again |
| `Functions.swift` | none | `verifyNewCourseToSchedule` | the only guard of the schedule |
| `DBQueries.swift` | none | `getSchoolList`, `verifyUsername` | completions that are never called |
| Firestore (external) | course, faculty, school and user name documents | | other clients write too; writes are rejected |
| leveldb `log_writer`, `log_reader` | a log file, the writer's and the reader's place in it | `AddRecord`, `ReadRecord` | block boundaries, torn appends, truncation |
| leveldb `db_impl`, `version_set` | queue of writers, two memtables, version, manifest, files | `Write`, `Get`, flush, compaction, `Open`, destructor | threads, crashes, failed file operations |
| leveldb compactions | tables by level, snapshots | `PickCompaction`, `CompactRange`, `DoCompactionWork`, `Version::Get` | entries are dropped while they may still be needed; a flush meets a running compaction |

Screens interact in three ways: a segue presents a new instance and its
`prepare` starts a query whose callback fills that instance in (the *hand-off*);
the global dictionary `newUserData`; and the documents in Firestore. All segues
are of kind "show" without a navigation controller and nothing dismisses a
screen, so a covered instance never comes back.

What makes the parts correct: a schedule has no two courses in one period, no
more courses than its school allows and courses of one school only; it survives
every way through the flow; what the user sees is what a tap acts on; what is
created is what was shown, and reads back as it was created; what is saved was
checked. For leveldb: a batch is found by every later read and by recovery from
the moment its write returned, no file in use is deleted, nobody waits for ever,
and compactions do not change what a read finds. The hazards that threaten this
are listed, with their lines, in `PROJECT.json`.

## Modules

| Module | Models | Notes |
|---|---|---|
| `Objects` | `Course`, `Schedule`, `School`, `verifyNewCourseToSchedule`, the outcome of queries and of the search filter | constants and operators only |
| `App` | `newUserData`, the screen on top, a runtime trap | shared by the screens |
| `SchoolSelector` | `SchoolSelectorViewController`, `getSchoolList` | composed in `SignUp` |
| `ChooseClasses` | `ChooseClassesViewController`, and the hand-off callbacks that fill it | `Spec`, `FairSpec`; implements `Timetable` |
| `Timetable` | abstract: one slot per period, changed one at a time | |
| `AddClass` | `AddClassViewController`, document creation | `FormSpec` |
| `SignUp` | the three screens presenting one another, other students | `SignUpSpec` |
| `UserInfo`, `Security` | the two first screens, `verifyUsername` | composed in `NewAccount` |
| `NewAccount` | Security on top of UserInfo, whose answers still arrive | `AccountSpec` |
| `Documents` | `data` and `init(data:)` of School, Faculty, Course; writes, rejections, queries | `DocSpec` |
| `LogFormat` | leveldb's log files, byte by byte | `LogSpec` |
| `Store` | abstract: what leveldb promises a caller of `Write` | |
| `DBImpl` | a leveldb database: threads, files, faults, crashes, recovery | `Spec`, `FairSpec`; implements `Store` |
| `Compaction` | the tables by level, with keys, deletions and snapshots | `Spec` |
| `..._proofs` | lemmas and theorems about `ChooseClasses` and `AddClass` (in `Classes_proofs`, with the operators of `Objects`), `SignUp`, `NewAccount`, `Documents`, `LogFormat`, `Compaction`, `DBImpl` (in `DBImpl_proofs` and `DBImplReads_proofs`) | checked by TLAPS |
| `MC...` | instances for TLC | |

In the models of the app a handler of the code is one action with the same name;
a query is split into the step that asks and the step that runs its callback,
because the main queue runs other things in between. A callback that never runs
(an error, or a document that cannot be decoded) is a step that is never taken:
safety needs no fairness. Indexing an array beyond its end sets `crashed`.

**Objects.** A course document is written once, so a course is a member of the
constant set `Course` with constant functions `period` and `schoolId`;
documents not yet created are members too. `Schedule.courseLoad` is optional in
Swift but every schedule of the flow has one. `PeriodAssumption` holds because
the form's wheel has `MaxStudentCourseLoad` rows and the app is the only writer
of courses. The three-way text match of the search is any sublist.

**ChooseClasses.** `rows` is what the table shows, row by row; `Table` is what
the data source would give now. They are equal after every reload and drift
apart otherwise; `Scroll` re-asks for one row. `handOff` is the callback under
way. `periods` is the label under the table, modelled as the number of times
each period occurs in it. `viewDidLoad` runs before any callback, so it never
finds a school.

**AddClass.** `classData` is the dictionary, `Nil` for an absent key.
`updateUserInfo` copies the title and the choice of the wheel that is selected.
The dialog is modelled with its fade: `animateOut` makes it transparent (touches
reach the button under it) and its completion, `FadeDone`, removes it. Left out:
the room number, the first name of a teacher and `addTeacherData`, which nothing
reads back; a wheel that is still spinning when another button is tapped.

**SignUp.** The variables of ChooseClasses and AddClass are those of the
instance presented last and are set afresh by `NewScreen` and `NewForm`. A query
answers with the documents that exist then. Callbacks of covered instances are
dropped, except those of `updateNewUser`, which write `newUserData`. History
variables: `strayed` (a callback saved another school than the selected one),
`outran` (the form was opened before ChooseClasses had a schedule), `lastRun`.

**NewAccount.** `verifyUsername` is two steps, the read of the document and the
callback, so that names can be taken and fields edited between them. First name,
last name and phone number are treated alike by the code and are the members of
`TextField`. A second tap on Continue sends a second query; its answer may come
when Security is on top, and saves the first screen's entries once more.

**Documents.** A value in a dictionary is a pair of its Swift type and its
content, so that `as? String` is a test of the first component. The encoders and
decoders are translated with their error paths. `setData` queues a write that
the backend takes or rejects, in order; a query sees backend and queue.

**LogFormat.** A byte is the triple of its kind, its fragment and its place; the
checksum is taken to tell fragments apart. One step is one fragment. An append
may fail after any byte, the last one included, and the file may be cut at any
byte. A header that is no fragment's may have any type and length, so it may be
reported, skipped like a zero record, or taken for the end of the file.

**DBImpl.** A step is one critical section of `mutex_`; what the code does with
the mutex released (append, sync, build a table, write the manifest, rename
CURRENT) is a step of its own into which a crash may fall. Abstractions: a batch
is the call that brings it, without keys; two levels stand for seven, the inputs
of a compaction are any files and a flush goes to any level; a compaction has
one output and a replayed log gives one table; a table that broke off is not on
the disk under its number; changes of the directory become durable in order;
condition variables have no spurious wakeups; options have their defaults. A log is
not divided into blocks: replaying it ends at a torn record, where the code may find
later blocks again (the batches there are `excused` from being found).
Background work is begun for `imm_` and for the number of files in level 0, on which
writers wait; compactions begun for the size of a deeper level, for seeks
(`db_impl.cc`, 1147) or by `CompactRange` are left out here and are among those of
`Compaction`, which leaves the choice open. Without them every behaviour has finitely many
compactions, which keeps file numbers bounded.

**Compaction.** The complement: keys, sequence numbers and snapshots, without
files and failures. An entry is its sequence number, a table a set of entries.
Sizes are left out, so each choice a size decides is open: which table is
compacted (seek compactions can choose any), how many tables a manual compaction
takes, whether inputs grow, where an output is cut, how deep a flush goes. Tables
of level 0 are searched in the order of their entries, which is the order of
their numbers. What `DoCompactionWork` will drop is fixed when it starts, for it
asks only the inputs, their version and `smallest_snapshot`. History variables:
`parted` (a compaction took one of two tables of a level that share a user key),
`overlaid` (an output was installed over a table flushed meanwhile).

## Runs

Passing runs, each with the type invariant of its module where there is one:

* `choose_classes`: one school of two periods, two courses in the first and one
  in the second, one visible row. Every schedule a hand-off can bring, every
  course list, every search outcome. Two courses in one period give the refusal,
  three rows give indices beyond a shorter list. `NoPeriodClash`, `LoadBounded`,
  `CheckmarksTruthful`, `TapTogglesShownCourse`; the refinement `IsTimetable`;
  `ReturnedScreenFills` under `FairSpec`.
* `add_class`: one school, two periods with two courses each, two teachers
  existing or not, two titles; initial schedules as in `choose_classes`, or none.
  `CreatedAsShown`, `WheelsAsChosen`, `DialogTruthful`, `ReturnsClashFree`.
* `sign_up`: two schools, the smaller with one period, three courses of which one
  exists, one teacher; two selections (`MaxRequests`), the least number whose
  answers can be reordered. `HeldClashFree`, `SavedIsSelected`, `OneSchool`,
  `CreatedForSelected`, `NoListNoWay`, `NothingLost`. The view `MCView` drops
  variables of covered instances and the course list inside the saved school: no
  action or property reads them later.
* `documents`: two ids for the app, and four documents entered by hand, one of
  them undecodable, one incomplete. `CreatedReadsBack`, `AllOrNothing`,
  `SchoolsByHand`.
* `new_account`: two names, one text field, two passwords, two taps (`MaxTaps`),
  so that two queries overlap. `OnlyConfirmedSaved`, `AccountComplete`, and
  `AnswerShows` under weak fairness of the callbacks. The history variable `retyped`
  marks a name changed while a query was under way, the one case in which a name
  that was not checked is saved.
* `log_format`: blocks of five bytes with headers of two, three records of length
  0, 1, 3 or 7 (over two block boundaries), one failed append. Lengths and blocks
  meet in every remainder, the trailer and the empty first fragment included.
  `PrefixSurvives`, `NeverForged`.
* `db_crash`: three writers, one synchronous, memtables of one batch, groups of
  two, opened twice, crashes of the process and of the machine anywhere.
  `SequencesDistinct` and the refinement `IsStore`.
* `db_faults`: the same opened once, with a reader and one failure of any file
  operation. `ReadsSettled`, `FilesKept`, `CrashSafe`.
* `db_live`: two writers and a `TEST_CompactMemTable`, level 0 full with one
  file, one failure. `WritesReturn`, `CloseReturns` under `FairSpec`.
* `compaction`: two keys, three levels (the fewest in which a dropped deletion
  can uncover something deeper), four updates, one snapshot at a time.
  `KeepsVisible`; `ReadsSurviveCompaction`, for behaviours that are neither
  `parted` nor `overlaid`.

Deadlock is not checked: the flow ends at FinalSetup, in an alert or in a trap,
and a database may stay idle. `db_live` is about the waiting that matters.

Runs that must fail, each a disagreement between the program and its own texts:

* `all_set`: "You're All SET!" although `newUserData["schedule"]` was never set;
  `prepare` looks for the name of another segue.
* `compaction_hop`: "entries never hop across levels" although a compaction, or a
  move, can take the newer half of a user key down and leave the older half
  above it; `Get` then returns a value that was overwritten or deleted.

More configurations of the same kind are kept beside them. TLC finds each one's
property violated; the comment at the property quotes the text:

| Configuration | Property | Disagreement |
|---|---|---|
| `MCChooseClassesAll` | `ShowingAllCourses` | a tap on "Please Select a School" selects a course nobody sees |
| `MCChooseClassesSearch` | `ShowingSearchResults` | until the first character is typed the table still shows all courses; a tap traps |
| `MCChooseClassesMessage` | `AlreadySelectedShown` | "You have already selected a course" is written to a hidden label |
| `MCSignUpLabel` | `NoCoursesSelectedTruthful` | "No Courses Selected" under a schedule with courses |
| `MCNewAccountChecked` | `ErrorCheckAndUpdate` | the saved user name was not the one checked, and may be empty |
| `MCDocumentsAdded` | `HasBeenAdded` | "Your Class Has Been Added" and the backend rejects the write |
| `MCLogFormatLost` | `NoWritesLost` | after a torn append later records of the block are lost though reported as written |
| `MCDBImplForce` | `ForcesMemtable` | a NULL batch in another writer's group forces nothing |
| `MCDBImplError` | `ErrorEndsManifest` | a compaction commits behind the manifest record that failed |
| `MCDBImplCreate` | `CreationRepeatable` | the first manifest is not synced before CURRENT names it |
| `MCCompactionOverlap` | `MustNotOverlap` | a manual compaction with a gap, and a flush into the gap, trip the assertion of `MaybeAddFile` |

## Fairness

* `ChooseClasses!FairSpec`: weak fairness of `viewDidAppear` (UIKit calls it) and
  of the hand-off (Firestore is reachable and the documents decode; without that
  the code waits for ever, which the hazards list says). Nothing is assumed of
  the user.
* `NewAccount!AccountSpec`: weak fairness of the callbacks of `verifyUsername`;
  the main queue runs what it holds.
* `DBImpl!FairSpec`: weak fairness of every writer inside of `Write`, of the
  background thread, of opening and of closing: the scheduler runs threads that
  can go on. Nobody has to call `Write`, `Open` or the destructor, and nothing
  has to fail or to succeed.

## Refinements

`ChooseClasses` implements `Timetable`: `slot` is the course of a period in
`courseLoad`, `count` its length. Every step of the screen fills or clears one
slot, receives the timetable once, or stutters; in particular the hand-off never
replaces a schedule. `DBImpl` implements `Store`: `stored` is what a recovery
from the present disk would find. A group's append adds its batches at once;
flushes, moves, compactions, manifest switches, deletions, recovery itself and a
crash of the process are stutters; a power failure takes only what was not
synced.

## Proofs

Every theorem is about the specification of its module for every value of the
constants; the named assumptions are all that is used about them.

The first part of `Classes_proofs` proves every safety property that the run
`choose_classes` checks, for every set of schools and (finitely many) courses and
every screen size:

* `TypeCorrect`: `Spec => []TypeOK`
* `PeriodsDistinct`: `Spec => []NoPeriodClash`
* `LoadWithinLimit`: `Spec => []LoadBounded`
* `CheckmarksTruthfulHolds`: `Spec => []CheckmarksTruthful`
* `TapTogglesShown`: `Spec => TapTogglesShownCourse`
* `ImplementsTimetable`: `Spec => IsTimetable`

`NoPeriodClash` is not inductive: the schedule may be the one a hand-off
carries. The inductive invariant `Inv` adds `HandOffSound` (the schedule
under way is free of clashes) and `ScheduleSound` (the screen has a schedule only
after the hand-off ran). There is one lemma per action. `TappedSound` carries the
argument for a tap: removing keeps periods distinct (`RemoveKeepsClashFree`, from
what `RemoveAt` does to indices), appending does so because of
`verifyNewCourseToSchedule` (`AppendKeepsClashFree`). `LoadWithinLimit` adds
`LimitOfSchool` (a schedule has the maximum of its school) and uses
`ClashFreeBounded`: distinct periods are an injection of the schedule's indices
into `1..max`, and the library's pigeonhole theorem bounds its length.

The rows need more, because a tap changes the checkmark of the tapped row only:
`RowsInv` says that while the screen is live every row that shows a course stands
for the course which the tap would be answered for (`RowsFollowSource`), that
neither list has a course twice (`ListsDistinct`, which follows from what a query
and the filter return), and that before the hand-off all rows are placeholders
(`BeforeHandOff`). `ToggleRows` is the argument for a tap.

The refinement is proved step by step: `TableInitStep`, and `TableNextStep`, in
which a tap is a step of the timetable because of `TappedTable` (removing or
appending a course changes the slot of its period and no other, and the count by
one) and every other step leaves the table alone or brings it.
Assumptions used: those named in `Objects` and `ChooseClasses`.

Its second part proves every invariant that the run `add_class` checks, for every
school, staff, set of courses and number of titles:

* `FormTypeCorrect`: `FormSpec => []FormTypeOK`
* `CourseAsShown`: `FormSpec => []CreatedAsShown`
* `WheelsTruthful`: `FormSpec => []WheelsAsChosen`
* `DialogSound`: `FormSpec => []DialogTruthful`
* `ReturnSound`: `FormSpec => []ReturnsClashFree`

The inductive invariant `FormInv` adds three facts. `ChoiceCopied`: the choice of
the wheel that is not selected equals its copy in `classData`; with it
`updateUserInfo` always yields a complete and current dictionary
(`updateUserInfoSound`, `VerifiedIsComplete`), so `Course.init` does not throw
once `verification` passed and the alert has its button. `DialogReset`: the
picker of the dialog is at its first row whenever the dialog cannot be touched.
`LockedInFade`: a form that is locked while the dialog fades was locked by a tap
during the fade. Assumptions used: `ChoiceAssumption` (`Nil` is no teacher,
Boolean or number), finitely many teachers, and those of `Objects`.

`SignUp_proofs` proves every property that the run `sign_up` checks, for every
set of schools, courses and teachers, any number of selections and every order
of the callbacks:

* `SignUpTypeCorrect`: `SignUpSpec => []SignUpTypeOK`
* `HeldClashFreeHolds`: `SignUpSpec => []HeldClashFree`
* `NoListNoWayHolds`: `SignUpSpec => []NoListNoWay`
* `SavedIsSelectedHolds`: `SignUpSpec => []SavedIsSelected`
* `OneSchoolHolds`: `SignUpSpec => []OneSchool`
* `CreatedForSelectedHolds`: `SignUpSpec => []CreatedForSelected`
* `NothingLostHolds`: `SignUpSpec => NothingLost`

The steps of the two screens are those of `Classes_proofs`; what is new is what
passes between them. `FlowInv` joins `Inv`
and `FormInv` with `ListInv`: past the first screen something is selected, and
once something is selected a school is saved, which the way back from the form
reads. (`updateNewUser` saves the school without its courses before it asks for
them.) `QueriesInv` numbers the queries: the one with the last number belongs to
the current selection. `SchoolInv` follows the school through every place that
holds one (the saved entry, the hand-off, the lists, the form), as long as no
late callback has saved another; `LimitOfSchool` is not part of it, because a
form may return to another school than it was opened for, and `OneSchool` gets
its bound from the periods of the courses instead. `FromSelector` (the hand-off
from SchoolSelector carries no schedule) is what `NothingLost` needs. Assumptions
used: those of the screens, finitely many schools, at least one
(`SignUpAssumption`), and `NilValueAssumption`.

`NewAccount_proofs` proves, for every set of fields, names and passwords and any
number of queries under way:

* `AccountTypeCorrect`: `AccountSpec => []AccountTypeOK`
* `OnlyConfirmedSavedHolds`: `AccountSpec => []OnlyConfirmedSaved`
* `AccountCompleteHolds`: `AccountSpec => []AccountComplete`

`AccountInv` adds `InfoSettled` (when UserInfo has been left its fields are
filled and what is saved is what they show, so that a late answer saves the same
again), `NameChecked` (as long as the name was not changed with a query under way,
every query is about the name shown, so the one that leaves the screen found this
name to be free), `ShownAgreed` (while the two fields agree their content is in the
history) and `PassedSettled`. Assumptions used: `AccountAssumption` and
`UserInfoAssumption` (the empty text is no user name).

`Documents_proofs` proves, for any number of documents and whatever is entered
by hand:

* `CreatedReadsBackHolds`: `DocSpec => []CreatedReadsBack`
* `AllOrNothingHolds`: `DocSpec => []AllOrNothing`
* `SchoolsByHandHolds`: `DocSpec => []SchoolsByHand`

Three lemmas are about the codec alone: a teacher and a course are decoded from
the dictionaries made of them (`FacultyReadsBack`, `CourseReadsBack`, where the
teacher is one the app can have: created, or decoded from a document entered by
hand), and a school is not (`SchoolUnreadable`). `DocInv` adds the types and
`IdsFresh`: the document with the id of a created course is the one made of it.
Assumption used: `ByHandAssumption` (a document entered by hand is marked as
such).

`Compaction_proofs` proves, for every set of keys, number of levels, of updates
and of snapshots:

* `CompactionTypeCorrect`: `Spec => []CompactionTypeOK`
* `VisibleKept`: `Spec => []KeepsVisible`
* `ReadsSurvive`: `Spec => []ReadsSurviveCompaction`

The inductive invariant `CInv` adds `SnapshotsSorted`: the list of snapshots is
in the order of their numbers, so that `smallest_snapshot`, its first, bounds all
of them (`SmallestSnapshot`). An entry is dropped only when a newer one of its
key, not newer than `smallest_snapshot`, is among the inputs, or when it is a
deletion; a read at or after `smallest_snapshot` therefore does not stop at it
(`KeptVisible`). The steps that run while the compaction does keep this: a
snapshot taken later has a larger number, a released one asks for nothing, a
write adds an entry newer than all inputs.

`ReadsSurvive` needs what a level holds beside the inputs, too. `Whole` says: as
long as nothing is `parted` or `overlaid`, `LevelInv` holds. Its parts are why a
search may stop at the first level that has the key: the memtables hold the
newest entries (`MemNewest`), an entry of a level is newer than every entry of
its key in a deeper one (`LevelsOrdered`), the tables of a level but the first
have their keys one behind the other (`LevelsSorted`), and the entry a read has
to find is present, or it is a deletion with nothing older left below it
(`NothingLost`). While a compaction runs, `InputsApart` says that its inputs are
still there and that the tables beside them share no key with them, newer tables
of level 0 excepted, and `DropsSound` that what it drops is covered by a newer
input at the `smallest_snapshot` it read at its start, or is a deletion whose key
no deeper level has. That last test is made once, at the start, and is still true
when the result is installed: the inputs stay in their levels until then, and
`PickLevelForMemTableOutput` takes no flush past a level that it overlaps. The two
exceptions are real (`compaction_hop`, `MCCompactionOverlap`), so the property
excuses them. Assumption used: `CompactionAssumption`.

`LogFormat_proofs` proves every property that the run `log_format` checks, for any
sizes of blocks (not smaller than a header), headers and records, any number of
records and of failed appends, and any cut of the file:

* `LogTypeCorrect`: `LogSpec => []LogTypeOK`
* `NothingForged`: `LogSpec => []NeverForged`
* `PrefixReturned`: `LogSpec => []PrefixSurvives`

Already the types need to know what the reader meets: a header in the buffer
names a fragment only because every byte of the file is zero or a byte of one
(`Written`). `LogInv` joins the types with two parts. `FragsInv`: a fragment that
does not begin its record goes on where the one before it stops (`Pieces`), and
records come in order. `FileInv`: whatever has failed, the bytes of a fragment lie
in one piece from its first byte on (`FromFirst`), fragments lie in their order
(`InOrder`), and a fragment whose record goes on behind it is whole
(`ContinuedWhole`), since a call of `AddRecord` stops at the first append that
fails with a status that is looked at.

`NothingForged` then needs `ReturnedInv`: the records returned so far are an
increasing selection `g`, none of them can be met again behind the reader's place,
and what `scratch` holds is a record up to the end of a fragment that lies less
than a header before that place (`Building`). A middle or last fragment met there
is the next one of the same record (`Adjacent`): between the two there is no room
for another, and `ContinuedWhole` says that the one before it is in the file.

`PrefixReturned` needs `CleanInv`, about behaviours without a failed append.
`CleanRecords`: every record but the one being written has all its fragments.
`CleanFile`: a fragment goes on as far as the file does, crosses no boundary of a
block, and is followed at once, or behind a trailer shorter than a header, by the
next one; the writer's offset is the place in the block where the file ends.
`CleanReader`: the reader has passed the fragments before some `c` and no other,
has returned the records that were complete there, and its buffer ends with a
block or with the file. So a header's worth of bytes in the buffer is fragment
`c` (`FrontIsNext`), no block is dropped (`NothingDropped`), and when the reader
stops `c` is not whole, from which the records that are whole are those returned
(`Stopped`). Assumption used: `FormatAssumption`.

`DBImpl_proofs` (the first three) and `DBImplReads_proofs` (the others) prove, for
any number of writers and readers, any limits, and any number of failures, crashes
and openings:

* `DBTypeCorrect`: `Spec => []DBTypeOK`
* `FilesKeptHolds`: `Spec => []FilesKept`
* `SequencesDistinctHolds`: `Spec => []SequencesDistinct`
* `ReadsSettledHolds`: `Spec => []ReadsSettled`
* `CrashSafeHolds`: `Spec => []CrashSafe`
* `StoreImplemented`: `Spec => IsStore`, if neither `"append"` nor `"manifest"` is
  in `Faults`

`BaseInv` is inductive by itself. `WriterInv` says that only the front of the
queue may be past `"wait"`, that nobody is in the queue twice and that a status
is given to a writer that is out of it; `TypesInv` has the types; `BgInv` ties the
background thread and the queue to an open database; `ManifestInv` says that the
edits of a manifest save file numbers above its own (`Numbered`), so that the
manifest a later opening starts has a name of its own, that CURRENT's manifest is
there, and that an open database appends to the one CURRENT names.

`FilesInv` is about what the files name. A manifest counts as sound
(`FileSound`) when, cut after any record from the last synced one on, the tables
of its edits are on the disk, or the cut is behind a torn record: this is
what a crash inside `LogAndApply`, a failed append and a power loss need, and it
is kept when a record is appended or synced only because the tables that the edit
adds were there before. While there is no background error the manifest in use
is `Settled`: synced as a whole, it names exactly the tables of the current
version. So `DeleteObsoleteFiles` may drop everything that no version in use
refers to (`LiveDeleted`); after an error, when the manifest may name tables that
the version lacks, it deletes nothing. The lemmas from `TablesPrefix` to
`ReplayedThere` are about replaying edits.

`StampInv` is about the sequence numbers given. The batches stored anywhere, in
tables, logs or memtables, read or not, have distinct numbers; while the
database is open none is above `last_sequence_` but those of the group that its
leader is logging, which are the numbers right after it. That holds across a
crash only if recovery finds `last_sequence_` again, which is `NumberInv`:
every edit of a manifest saves a file number above all tables added up to it and
a sequence number not below any batch in them (`Saves`), at every cut that a
crash can leave, and what is in no table is in a log that recovery replays or
deletes. It needs the file numbers too: a table is written under a number that
no edit of the manifest has added (`NotTaken`), since otherwise an old edit would
come to name new batches. A failed
group uses its numbers up like any other (`EndGroup`): after a failed sync its
record is in the log, and recovery may find it next to later ones.

`FailInv` and `KeepInv` are about the batches themselves. `FailInv`: one whose
write failed is in no table and in no memtable, and is forgotten with the process.
`KeepInv` follows the batches whose writers return OK or already have and that
are not excused (`Due`; a follower of a group is told by its leader before it
wakes up; excused are the batches logged behind a record that broke off, and
those without WriteOptions::sync that a crash of the machine took). While the
database is not open, `Safe`: cut after any record at which a crash can end it
(`Point`), the manifest names a table that has the batch, or a log that is
not older than the one it names has it before the first torn record (`Found`);
in the synced part of that log if the machine may stop. While it is open the
invariant is split along the way that a batch takes. `LogKept`: what `mem_` has is in the
log in use, and a leader that did not ask for a sync has nobody in its group who
did (`GroupChosen`). `VersionKept`: a batch that is due is in `mem_`, in
`imm_` or in a table of the version, and at every point of the manifest it can
end at, the manifest names tables with whatever the version has, and tables or logs with
whatever `imm_` has. It is every point because
an edit that could not be written or synced may or may not be found later, while the
version goes on without it. `EditKept`: the edit that the background thread is
about to write replaces tables by tables with the same batches, and the one of a
flush moves the log number on only over logs whose batches are in the table it
adds. `ReplayKept`: while `DB::Open` replays, a batch that is due is in the
version, in a table already written or in a log still to be replayed; and the old
manifest stays `Safe` until CURRENT names the new one. A step of the background
thread is then a case of `EditPoint` and `PointAppended` (what the manifest finds
when a record is appended), a crash a case of `InterruptedRecovers` and, for the machine,
`CutRecovers`; `ContentsFound` ties `Found` to `Contents`, which is what
`Recover` and `RecoverLogFile` compute. The numbers of `NumberInv` are needed
throughout: a table or a log that is begun replaces none that a manifest still
names.

`StoreImplemented` is the refinement of `Store`: every step of the detailed
specification is `Write` (calls return, batches of open calls enter what recovery
would find, and OK is returned for those that are in it), `PowerLoss`, or changes neither.
The invariants above bound `Contents(disk)` from below only; that a flush, a
compaction or an opening adds nothing needs it exactly, which is `ExactInv`.
`Restores`, of the files of a closed database: the manifest has no torn record but
perhaps at its end, and where a crash cuts it later recovery finds no less
(`Grown`), a batch being in a table of a later edit if an earlier one still names
its log; the first manifest, the only one that is not synced before it is
named, belongs to an empty database (`Blank`, `Bare`). `ReplayExact`: during
`DB::Open`, what recovery would find is in the tables so far or in a log
still to be replayed. While the database is open, `VersionExact`: the manifest
in use names the tables and the log of the version; `LogsExact`: the logs that a
recovery would read have what the memtables have, or tables of the version, and
the group being synced; `EditExact`: the tables that an edit adds hold nothing but
`imm_`, or what the version has. `OutInv`: no call is under way in a database
that is not open. `ExactStep` then says of each step that `Contents` stays,
grows by batches of open calls (`Stores`), or is lost to a crash of the machine
(`Loses`), and `StoreStep` turns these into the steps of `Store`.

Both hypotheses are needed, and what breaks without them is code behaviour that
the model shows elsewhere. Behind a log record that broke off, `Write` still
returns OK for batches that `LogReader` does not reach (`excused`). Behind a
record of the manifest that broke off, a compaction that was interrupted by a
failing `CompactMemTable` appends its edit (`MCDBImplError.cfg`), and the manifest
cannot be recovered. TLC finds `IsStore` violated with either failure. Failing
to create, sync, build or open a file is within the theorem, while the run
`db_crash` checks `IsStore` with no failure at all.

Assumption used: `DBAssumption`; of it, that there are finitely many writers, for
the numbers given to batches found in a log. In `BehindTorn`, `Recoverable` and
`Visible` the operand of UNION is in parentheses because the prover and TLC
group `UNION a \union b` differently.

Only model-checked: the liveness properties `ReturnedScreenFills`, `AnswerShows`,
`WritesReturn` and `CloseReturns` (the prover has no support for fairness and
ENABLED). Every other property of a passing run is a theorem. No module
declares a RECURSIVE operator.

## Not modelled

Of the app: `AppDelegate`, `ViewController`, `UIFunctions`, the developer test
screen and the empty test targets, which do nothing; `FinalSetup`; the welcome
pages, an index into a fixed array; animations other than the fade, wording and
layout; reused table cells whose labels stay hidden after a placeholder row.
`Account`, `Student`, `Agenda` and `Assignment` are declared and never
constructed.

Of leveldb: the options `reuse_logs` and `paranoid_checks`, iterators,
`DestroyDB` and `RepairDB`, `initial_offset` of the log reader (always 0); the
skip list, whose correctness is a matter of C++ memory ordering that
interleavings do not express; cache, arena, Bloom filter, codings, blocks and the
table format, of which the models use what they promise.

The other libraries under `Pods` (BoringSSL, gRPC, Protobuf, nanopb, Firebase)
are unmodified third-party code, most of it generated tables, cryptography and
protocol stacks; the models contain what the app observes of them. They are more
than nine tenths of the repository's C and C++ lines, which is why the modelled
lines are a small share of the whole although they cover the app's logic and the
core of its store.

## Plan

1. Done: all modules above, their runs, the two refinements, the proofs listed.
2. Done: the safety properties of the app's screens and documents as theorems.
3. Done: all safety invariants of `DBImpl` as theorems.
4. Done: the safety properties of `LogFormat` and `Compaction` as theorems.
5. Done: the refinement `IsStore` while no append to a log or a manifest fails.
