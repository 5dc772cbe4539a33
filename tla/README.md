# RomanWalk: a TLA+ verification project

RomanWalk is an iOS treasure-hunt game. The player chooses a *project* (a walk
run by an *organisation*, e.g. a museum), the app downloads it from Firestore
into Core Data, the player finds *locations*, scans their QR code, answers a quiz
and wins a *coin*; every coin is worth two per cent of the entrance fee, redeemed
as a QR code. This directory models the parts of the app that keep state, checks
them with TLC and proves theorems about them with TLAPS. Paths below are relative
to `src/RomanWalk/RomanWalk/`.

## 1. Inventory

| Part | State | Operations | Hard behaviour |
| --- | --- | --- | --- |
| Quiz (`QuizHandler`, `QuizViewController`, `QuizView`) | shuffled tasks, question number, score, buttons, timers | open, tap an answer, refresh after 0.5 s, verdict button | taps against timers and against the window of the verdict |
| Message queue (`Pods/SwiftMessages`) | current message, queue | show, present, hide, next | shared by all screens, drops duplicates |
| Download (`Saver`, `FirebaseService`) | `errorThrown`, managed object context, store | `saveProject`, replies, loops, `deleteExistingProject` | replies in any order, replies to abandoned Savers, replies from a cache, failures anywhere |
| Image files (`FileDownloader`) | files of the documents directory | download, replace, complete | second thread, half-done replacement |
| Error alert (`DownloadErrorHandler`, `LocationViewController`) | `errorPresented`, the alert | show, retry with a queued clean-up | alert off screen, order of clean-up and replies |
| Choice of a project (`ProjectViewController`, `ProjectDataSource`, coordinators, `MainTabBarController`, `SceneDelegate`) | user defaults ProjectID, GameID, DownloadNeeded; `enableProjectStart`, the notifier, the listed projects | open the list, replies, reports of the network, tap a project, answer the question, launch | switch in the middle of a download, restart, a question that outlives its list, late reports |
| Coin book (`CoinDataSource`, `CoinCollectionViewDataHandler`) | coins, `collected`, `percentage`, the menu | CoinEarned, redraw, menu | several observers alive, value computed while drawing, a menu that outlives its tab |
| Redeeming (`CoinViewController`, `FirebaseService.post`) | `hasNetwork`, QRCode dictionary, Firestore's queue | redeem, answer, reachability | read before an asynchronous write, stored after |
| QR scanner (`ScannerViewController`, `ScannerView`) | camera access, capture session, alerts | open, start, stop, read, retry | alerts, queued camera callbacks, appearance callbacks and the reply to the request for access in any order |
| Location manager and map (`LocationManager`, `MapViewController`) | last location, timer, annotations | start, stop, fix, fail, appear | timeout against a late fix, data read once |
| Museum tab | the organisation | open | data read once |
| Reconstruction, AR, detail screens | geometry | gestures | none to speak of |

The parts interact through calls (view controllers and coordinators), through
the Core Data context they all share, through the user defaults, and through
three kinds of broadcast: the CoinEarned notification (quiz to coin book), the
download error event (Saver to the screens) and the message queue.

What makes each correct: the quiz judges every question once, never reads outside
its tasks and hands out a coin exactly for a perfect attempt; a download that
reports no error leaves behind all of its project that the replies brought and
nothing of another one, and recorded file names name files; a failure is offered for
retry; a location yields one coin; the discount shown is that of the coins, and what
is redeemed was earned; a code the player holds has been stored by the server and is
not lost; a scanner in sight reads, or says why not; a search for the player ends, by
its own timer if by nothing else, and leaves the map on the best fix with every object
it has read marked once; the project list asks one question at a time, follows the
network, and the project it stores is the one whose download was started; and over
all, a coin is found only where a quiz was won.

## 2. Modules

| Module | What it models | Proofs |
| --- | --- | --- |
| `SwiftMessages` | the message queue: current message, queue, duplicates, presentation, hiding | |
| `Quiz` (extends `SwiftMessages`) | quiz handler, view and controller, the project list's status line | `QuizProofs` |
| `QuizRules` | abstract specification of the quiz: attempts, answers, owed and awarded coins | |
| `ProjectList` (extends `SwiftMessages`) | the project list, its Reachability, its requests, the question, the user defaults, launch | `ProjectListProofs` |
| `Saver` | download, image files, context and store, alert and retry, choice of a project, restart | `SaverProofs` |
| `Replacement` | abstract specification of a download: what it has to save, what it has saved, how far it is | |
| `CoinBook` | CoinEarned, its observers, the discount, the menu that redeems it | `CoinBookProofs` |
| `Hunt` (extends `CoinBook`, instantiates `QuizRules`) | the game: a quiz that behaves as its rules say, and the coin book that hears of it | `HuntProofs` |
| `TreasureHunt` | abstract specification of the game: quizzes won, coins found, the most held at a time, the last claim | |
| `Redeem` | the menu, reachability, the Firestore write, the dictionary of codes | `RedeemProofs` |
| `Scanner` | the scanner's capture session, camera access, alerts, the quizzes pushed on it | `ScannerProofs` |
| `Tracking` | the location manager's searches and timers, the map's annotations | `TrackingProofs` |
| `MCQuiz`, `MCProjectList`, `MCSaver`, `MCHunt`, `MCRedeem`, `MCScanner`, `MCTracking` | instances for TLC | |

`PROJECT.json` maps every definition to the lines it models.

**Quiz.** `quizSet`, `questionNumber`, `rightAnswer` and `maxQuestionNumber` are
the fields of `QuizHandler`; `shown`, `buttons` and `timers` are the view and the
scheduled refreshes. `DidSelect` is the whole handler of a tap: `checkAnswer`,
`nextQuestion` and either the refresh timer or the verdict. A tap is possible on
any button in sight, so a tap on a stale button is judged against the next
question, as in the code. `current`, `presented` and `queue` are SwiftMessages:
a message is presented by a later block of the main queue, and until then the
buttons below take taps (`MaxLateTaps` bounds how many). A tap that navigates is
a gesture of its own and comes after that block (`Settled`). A quiz without tasks
ends in the screen "crashed". `QuizRules` says what all this amounts to: an attempt
asks its questions one by one, the answer that completes a perfect attempt may win
a coin, a coin that is owed may be handed out or forgotten. A tap that slips in
after the last answer is a step of its own there (`AnswerAgain`), because the code
judges it; `StrictSpec` are the rules without it.

**ProjectList.** Every list has a number. No list is released (its callbacks hold on
to it), but the scene delegate keeps one coordinator, so a question that was asked
by an older list (`current.list # list`) saves the user defaults and opens nothing;
`orphaned` is a history variable that remembers such a choice until the next
download. `flags` and `reports` are Reachability: a change of the connection queues
a report on the main queue, which reads the flags as they are when it runs.
`ProjectsReply` replaces what is listed, one organisation at a time. `network`,
`downloaded` and `dismissed` (the player swiped the red line away) are there for the
properties. A project identifier stands for ProjectID and OrganisationID together.

**Saver.** Each `saveProject` starts a numbered Saver. `inflight` is the set of
its requests; every reply is an action that either succeeds or fails. Without a
connection Firestore answers a query from its cache, without an error, with some of
the documents or none, and the code takes that for the whole: `ListReply` inserts any
part of the list, `QuizReply` and `OrganisationReply` may bring nothing. `withheld` is
a history variable, the objects that such replies have left out. What the
context knows is a set of facts about objects (it exists, it is linked, it names
the file of an image), and each object carries the number of the Saver that
inserted it, so the objects of an abandoned download are told from those of the
current one. The loops of `saveCoin` and `saveLocation` take one action a turn,
because URLSession's thread may set `errorThrown` between two turns; the other
blocks of the main queue are one action. `late` is a history variable: the Savers
(0 is the project list) that still had answers to come when they were replaced.
The retry calls `saveProject` inside the tap, while its clean-up waits for the
main queue; since it was queued before the first request, it precedes the first
reply (`MayReply`). The project list asks for the organisations and then for the
projects of each (`fetching`, `requests`); its replies may come after a project was
chosen and still insert their objects into the context. `Replacement` says what a download promises: it begins with
nothing saved, saves only what its project has and loses none of it, is over only
with all of it saved that was handed out, and stays as it is when it is over, and when
the application has ended, until the next download begins. `ToSave`, `Lost` (what was
withheld), `Saved` and `Phase` are the refinement mapping. Objects of earlier Savers are not in it: which of them may be
there is `StartsFromNothing`. The file name of the organisation's image is left out
of what has to be saved: the code sets it and saves nothing, so whether it reaches
the store is up to a later save.

**CoinBook.** Every choice of a project builds a coin tab with a data source that
observes CoinEarned; an old one stays alive if its view was loaded. The posting
of CoinEarned is one `CoinEarned` step per data source, in any order. Coins arrive in
any portions, and late ones of a replaced Saver beside those that are there, so that
two `Coins` may stand for one document. `Render` is `cellForItemAt` for the first cell,
where the tab's `percentage` is computed; a tab that is off screen is not laid out, so
it stays scrolled, and its percentage as it was, while coins are deleted and come back.
The menu is a message of the shared queue: `Redeem` may happen on any screen and after
another project was chosen, and sends the percentage of the tab that opened the menu.
`best` and `outdated` are history variables: the most coins held at a time, and the tabs
that count coins which have been deleted.

**Hunt.** The composition: the actions of `QuizRules` with the inputs chosen, and
those of `CoinBook`, joined in `HandOut`, where the button of the message posts
CoinEarned. `Quiz` implements `QuizRules` (proved), so what holds of `Hunt` holds of
the quiz as it is. A message that waits survives the choice of another project,
whose location may have the same name. `won` is a history variable.

**Redeem.** A queued write keeps the dictionary that `postQRCodeToFirebase` read
before it (`dict`) and whether its callback still exists (`heard`). Firestore
keeps its queue across a restart; the callbacks are gone. The menu may be answered for a
tab that another has replaced (`old`), and then asks that tab whether there is a
network. `accepted` is a history of what the server has stored: a game has one document,
which holds its last percentage.

**Scanner.** `open` and `quizzes` are the navigation stack above the location's
detail screen; the scanner is `InSight` when it is its top and the tab is in front,
and only then do `viewWillAppear` and `viewWillDisappear` go to it. `frames` are
the camera's callbacks waiting on the main queue: `stopRunning` blocks that queue,
so some may be left when the session has stopped. `pending` are the blocks that
will present an alert; one that finds another alert on screen is lost, one from a
screen that is leaving may be. `session` is what `setupView` could make: "ready",
"bare" (no input: no camera or no access) or "nil". `read` is a history variable,
the code that stopped the session ("behind" for a wrong one read while another
alert was up or on its way).

**Tracking.** `search` counts the calls of `startLocationManager` and names the
CLLocationManager and the timer each makes; `timers` holds every valid timer, so a
timer that the code forgot would still be there to fire. A fix is its accuracy and
whether it is old. No fix arrives from a CLLocationManager that has been stopped
(external). `Objects` are Location and Organisation objects, not places: a location
that a replaced Saver's late reply has inserted once more is another object. The map
reads all the locations and the first organisation (`Fetched`), once, and marks them
together.

## 3. Runs

Passing runs:

| Run | Shows |
| --- | --- |
| `quiz` | the index stays inside the tasks, and only a quiz without tasks crashes (`QuestionInRange`); a view that lags behind has a refresh on its way (`RefreshPending`) and catches up (`QuestionCatchesUp`); the quiz implements `QuizRules` (`ImplementsRules`) |
| `download` | a download without failure has all that its replies brought, saved (`QuietMeansComplete`), with replies from a cache, failures, restarts and a malformed location around it; it starts from nothing although the project list, one of whose organisations may answer after the choice, has left objects behind (`StartsFromNothing`) |
| `download_retry` | the same after a retry, with late replies of the first download; recorded file names name files (`NamedFilesExist`); the download implements `Replacement` (`ReplacesProject`); every download comes to rest (`DownloadSettles`) |
| `download_switch` | a download starts from nothing when the project is changed in the middle of another and the project list has left objects behind |
| `hunt` | one coin a location; the discount in sight is current; what is redeemed was earned, and is ahead of the coins only if coins were deleted since the menu's tab counted them (`RedeemsWhatWasEarned`); quizzes and coin book implement `TreasureHunt` (`ImplementsHunt`) |
| `redeem` | a code in the dictionary has been stored by the server, under its own project, whichever tab's menu asked for it (`CodesAreAccepted`); while the notifier runs, redeem comes to see a network that has settled (`StatusFollows`) |
| `project_list` | one question at a time (`OneQuestion`); the stored project is the one whose download was started, unless a list without coordinator chose it (`ChoiceIsDownloaded`); while the notifier runs the list follows the network (`ListFollowsNetwork`) |
| `tracking` | each search has its own timer (`TimerIsOfThisSearch`) and ends (`SearchEnds`); the map rests on the best fix (`StopsWithTheBest`); one mark for each object read, and at most one organisation (`OneMarkEach`) |
| `scanner` | a session that stands still in sight was stopped by a code, and an undisturbed wrong code is offered its retry (`StoppedForAReason`) |

Violation runs, each a disagreement between a text of the program and what it
does (see "findings" in `PROJECT.json`):

| Run | Shows |
| --- | --- |
| `quiz_lost_coin` | the message that hands out the coin can be dropped as a duplicate or hidden by the project list |
| `download_silent` | a failure while the location list is off screen is never offered for retry |
| `redeem_lost` | a late answer wipes out another project's code |

**Bounds.** `MaxAttempts` (2 or 3 quizzes opened) lets a verdict outlive its
quiz; `MaxLateTaps` 2 lets a second verdict queue up behind the first. Three
questions let two refreshes be scheduled at once, and their options overlap, so
a stale button can hold the next right answer; the other locations ask for fewer
questions than they have, for one that has none, and for none at all.
`MaxSavers` 2 gives an abandoned download and its successor: no action involves
three. Two projects are enough to switch; in `download` one coin, one location
and one organisation give a request of each kind, and two organisations a list reply
that comes after the choice; in `download_retry` a coin gives a loop that an error of
the organisation's image can interrupt, and shares its file with that image; in
`download_switch` it gives the first project objects that wait in a loop. `MaxVisits` bounds how often the list is
left. `DiskMayFail` is true only in `download`: with it and a retry, the late
image of an abandoned Saver may remove a file of its successor. `MaxTabs` 2
gives an old data source, and a menu of its tab, beside the new one; the coins are two
of one location and one of another, which a second project has too: with three of them
the discount can fall behind and get ahead. The two coins of one location have one name
as well, so nothing but their identity tells them apart and they may be permuted
(`MCSymmetry`; the run checks no liveness). `MaxQuestions` 1: what lies between
the first and the last question is checked in `quiz`. `MaxLists` 3 gives the
list on screen, one whose question still waits and one more; `MaxReports` 2 is a
report behind another; two organisations answer in either order, and one has a
malformed project. `MaxPosts` 2 is one write behind another, `MaxGames` 3 a
project left and chosen again. `MaxFrames` 2 leaves a callback behind the one
being handled, `MaxPending` 3 is an alert for each and one more, `MaxQuizzes` 2
a quiz pushed twice. `MaxSearches` 3 gives a search with a fix of an earlier
search behind it and one ahead; the accuracies are an invalid one, two that are
good enough (one of them exactly) and two that are not; two locations, which may be one
place twice, and two organisations give a first one to choose.

Deadlock is checked in every run: a restart is always possible in `Quiz`, `Saver`,
`Redeem` and `ProjectList`, the tabs of `CoinBook` and `Scanner` can be left and
opened again,
and in `Tracking` a project can always be chosen or the map left.

**Fairness.** `Quiz`: timers fire and blocks of the main queue run (weak
fairness of `UpdateUI`, `Present`, `NextMessage`); the player owes nothing.
`Saver`: Firestore answers every read, if only with an error, URLSession times
out, and the run loop serves the main queue (`MainQueue`, `Background`).
`Tracking`: a scheduled timer fires (`Timeout`); no fix, failure or tap is
assumed. `Redeem`: the main queue runs the notifier's blocks
(`SetNetworkStatus`). The other modules state safety only and assume no
fairness.

## 4. Theorems

All hold for every value of the constants that satisfies the module's named
assumption (finiteness, the types of the constants, non-empty bounds).

- `QuizProofs`: `TypeCorrect`, `QuestionAlwaysInRange`, `RefreshAlwaysPending`
  from one inductive invariant. The index is in range because `nextQuestion`
  stops before `maxQuestionNumber`, which `setMaxNumber` caps at the number of
  tasks; the invariant relates the three while a quiz is open, and says that the
  view lags behind only while timers are scheduled.
  `QuizImplementsRules` proves the refinement of `QuizRules` from it, without
  further assumptions: the step that owes a coin is a tap on the last question
  (`VerdictIsLast`), the first one or one that slips in after it.
  `QuizImplementsStrictRules` proves the refinement of `StrictSpec` under `Orderly`
  (no late taps, every location asks at least one question): the invariant added is
  `OneVerdict`, that an attempt issues one verdict at most and only at its last
  question. Both hypotheses are needed. A second button tapped together with the
  first on the last question is judged again, so that one attempt may end with "try
  again" and with a coin; and a location that asks for no question calls any first
  answer but a right one a success.
- `SaverProofs`: `DownloadTypeCorrect` and `DownloadStartsFromNothing`.
  `StartsFromNothing` is not inductive. The invariant `SaverInv` adds that every
  request and loop belongs to the latest Saver or to a late one (`Requested`), that
  no fact is without its object and the store holds nothing the context lacks
  (`Traceable`), and that what an earlier Saver left behind is, until the clean-up
  runs, in the store, where the clean-up will find it (`Fresh`): this is why two
  deletions are needed and enough.

  The other theorems of the download rest on `StepKinds`: every step is of one of
  fourteen kinds, told apart by what it does to the download (a request fails, the
  project arrives, a turn of a loop, a bystander's step, ...). `DownloadOrder` is an
  invariant of its own, `OrderInv`: each first request is sent once (`Single`), nothing
  of a Saver exists before its project has come and no image before the reply that
  brings its object, the clean-up waits only while the latest project is awaited
  (`Staged`), and errors are thrown only for a Saver marked as failed (`Blamed`).

  `QuietDownloadIsComplete` (`QuietMeansComplete`) needs an invariant that says where
  everything missing still is, `PromiseInv`: while nothing of the latest Saver failed,
  each object is to come with a reply, or was withheld by one, or waits in a loop, or is
  linked with each of its images named or on its way and its quiz stored, withheld or
  asked for; and what is in the context is in the store, unless the coins, whose loop
  ends with a save, are still to come. When nothing is outstanding, all that is left of these
  alternatives is that what the replies brought is there: the whole project if they left
  nothing out.

  `NamesOfFiles` (`NamedFilesExist`) holds for a disk that does not fail. `FileInv` says
  that an image that was written has its file while its object exists (`Written`). The
  clean-up deletes all files, so it must find every such object in the store
  (`SavedFirst`): the loop that asked for the image saves at its end, before any
  completion runs, unless it returned on an error. This is the exception in the
  property. With a disk that may fail the property does not hold: the late image of a
  replaced Saver may remove a file of its successor.

  `DownloadReplacesProject` is the refinement of `Replacement`. Beside the invariants
  above it needs `OwnInv`, that requests, loops and facts are of the project of their
  Saver and that nothing is under way once the application has ended; and three facts
  about steps: a Saver with nothing outstanding stays so and fails no more
  (`QuietStays`), nothing the latest Saver saved leaves the store before the next one
  (`SavedStays`), and once the application has ended nothing of a Saver enters or leaves
  the store (`EndedStep`).
- `CoinBookProofs`: `CoinBookTypeCorrect`, `CoinsEarnedOnce`, `DiscountIsCurrent` and
  `RedeemsEarned`. The key lemma is `FirstIsCollected`: since collected coins are
  sorted first, an observer that hears of a location again marks the coin that is
  marked already. `RedeemsEarned` needs `Earned`: no tab holds more than the most coins
  ever held at a time are worth, nor, unless it is outdated, more than the coins of the
  moment; collected coins are only ever added, except by the deletion of all, which makes
  every tab that counts some an outdated one.
- `HuntProofs`: `GameImplementsHunt`, the refinement of `TreasureHunt` by quizzes and
  coin book. A claim there is for no more than coins once held together are worth, which
  is what `Earned` says of the percentages. Every step of the game is a step or a stutter of the coin book, so its
  invariants hold; `WinsAreKept` adds that whatever is on its way to the coin book, in
  a message or in a notification, was won.
- `ProjectListProofs`: `ListTypeCorrect`, `QuestionAskedOnce`, `ChosenIsDownloaded` and
  `ListAlwaysFollows` from the invariant `ListInv`. The choice needs that the defaults
  ask for a download only after an orphaned choice (`ChoiceInv`); the network needs that
  a running notifier has seen the connection the device has (`Informed`), and that a red
  line leaves the queue only by the player's hand or by a report (`LineStays`).
- `ScannerProofs`: `ScannerTypeCorrect` and `ScannerStopsForAReason`. The invariant
  `ScannerInv` adds that a retry alert on its way is the next one and finds nothing
  on screen, so it cannot be lost; this is what "undisturbed" is worth.
- `TrackingProofs`: `TrackingTypeCorrect`, `TimerAlwaysOfThisSearch`,
  `ObjectsMarkedOnce` and `SearchStopsWithTheBest`. The marks need that they are those
  of the objects read, made by the latest search, and gone when the map is
  (`MarksOfThisAppearance`); the best fix needs that it is of
  this search or an earlier one, and that a map once centred has a best fix.
- `RedeemProofs`: `RedeemTypeCorrect` and `CodesAlwaysAccepted`. The invariant
  adds that the dictionaries waiting in Firestore's queue hold codes the server has
  stored, and that what was sent is stored.

Only model-checked: the liveness properties (`QuestionCatchesUp`, `DownloadSettles`,
`SearchEnds`, `StatusFollows`), which are out of the prover's reach. Every invariant and
every refinement of a passing run is also a theorem.

Some things a reader might expect do not hold and are claimed nowhere; each is a
hazard with a note in `PROJECT.json`. A download that loses its connection may end
quietly and incomplete: replies from the cache are no errors, so no alert is shown and
nothing is fetched again. With the first cell of the coin tab scrolled out of sight,
redeeming sends the discount of an earlier count of coins, which may count coins deleted
since; a menu that waits behind another message redeems the percentage of its own tab,
even in another project. A coin tab
that was left without network never sees it come back, because its notifier is not
started again. A wrong code read behind the instructions alert stops the scanner
without a retry. The camera may run while the scanner is out of sight: the reply to
the request for access, or a retry pressed over a quiz, starts it. A map may be
centred on a fix of an earlier search, may mark places that a retry has deleted, and marks
a place twice that was inserted twice.
A project chosen through a question that has outlived its list is stored without
being opened; chosen again, it is opened without a download, over the old project's
data. The red line may stay up although the network is back, when a question was
current in its place. A list that is left and come back to no longer hears of the
network, and a first launch without network lists nothing: the button of its alert
does nothing, and no request is sent again. A launch after a download that was cut
off shows a partial project.

## 5. Not modelled

- Layout, drawing, animations, wording; the fields of the managed objects beside
  what the properties tell apart.
- The museum tab: it reads the organisation once when its view is loaded and shows
  it; the web view it opens is output. That data read once may be old is modelled
  for the map.
- The reconstruction view: sequential geometry, a separator set by a pan or an
  animated tap, which nothing else reads.
- The AR view: its state is ARKit's, and the code says too little of it.
- Location list and detail screens: the list's snapshot is a function of the context,
  which `Saver` models with the list's error handling; loading an image into a view
  has no state of the app's own.
- Annotation views and directions: they open the Maps application.
- `CoinCollectionViewDataSource`, `BeforeAfterView`, `CoinDetail`,
  `Coin2CollectionViewDelegate` and `NavigationPlannerView`, which are not part of
  the build.

The vendored pods are modelled only as far as the code depends on them
(SwiftMessages' queue, Reachability's notifier). `UserDefaults`, Core Data, Firestore
and URLSession are modelled from their use.

## 6. Plan

1. Done: quiz with its rules, download, coin book, redeeming, scanner, map and
   location manager, project list, the game as a composition; the theorems above.
2. Done: `QuietMeansComplete` and `NamedFilesExist` as theorems; the download against
   `Replacement`.
3. Left: the project list and the download joined in one module, so that what a choice
   starts (`ProjectList`) and what a download leaves (`Replacement`) are one statement
   about the project the player sees.
