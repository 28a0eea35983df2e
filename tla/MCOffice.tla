------------------------------- MODULE MCOffice -------------------------------
(* The shop's office, in one TLC run: its figures and its days (ShopFigures),*)
(* the lists of orders (OrderPages), its customers and their phones          *)
(* (Customers), reminders (ReminderRefresh), e-mails (RentalEmailQueue), and *)
(* the pictures it stores (EvidenceUpload, ProductMedia, MediaSync).  They   *)
(* share no state, so a behaviour runs one of them (`part`) and the others   *)
(* are off.                                                                  *)
EXTENDS Integers, Sequences, FiniteSets, TLC

CONSTANTS r1, r2,      \* two requests, workers or tokens
          Separator, Plus,
          Nothing, Gone

Two == {r1, r2}
Three == {r1, r2, "r3"}

VARIABLES part,
          zone, now, orders, payments, expenses,
          booked, phone, clock, walk,
          typed,
          rows, asked, addresses, moved,
          rental, moment,
          lease, run, granted, intruded, crashes, today, due, reminder, scan,
          row, worker, stalled, mailed, key, payload, clash, settings,
          order, doubtful, archived, media, objects, late, request, faulty,
          storageKey, source, cache, bucket, job, work, clean

-----------------------------------------------------------------------------
(* Days and figures *)

Week == 2
Month == 3
Longest == 4

\* Two ticks a day, two orders of two customers, a day behind UTC's.
Dashboard == INSTANCE ShopFigures WITH
    Length <- 2, Zones <- {[before |-> 1, after |-> 1, change |-> 0]}, Chart <- 1, MaxNow <- 13,
    Orders <- {1, 2}, Customer <- <<"c", "d">>,
    Bill <- <<[rental |-> 2, charge |-> 0], [rental |-> 1, charge |-> 1]>>,
    Amounts <- {2}, MaxRows <- 2, MaxExpenses <- 0, PreviewSize <- 1

\* One order, and expenses.
Finance == INSTANCE ShopFigures WITH
    Length <- 2, Zones <- {[before |-> 1, after |-> 1, change |-> 0]}, Chart <- 1, MaxNow <- 13,
    Orders <- {1}, Customer <- <<"c">>, Bill <- <<[rental |-> 2, charge |-> 0]>>,
    Amounts <- {1, 3}, MaxRows <- 2, MaxExpenses <- 1, PreviewSize <- 1

\* Six ticks a day; summer time comes, goes or never comes, in zones ahead of and behind
\* the clock.  No change is at midnight of a zone behind it, where that does not exist.
Zone(b, a, day, tick) == [before |-> b, after |-> a, change |-> day * 6 + tick]
Time == INSTANCE ShopFigures WITH
    Length <- 6, Chart <- 2, MaxNow <- 66, Orders <- {}, Customer <- << >>, Bill <- << >>,
    Amounts <- {}, MaxRows <- 0, MaxExpenses <- 0, PreviewSize <- 0,
    Zones <- {Zone(1, 1, 0, 0), Zone(-2, -2, 0, 0)}
       \cup {Zone(1, 2, day, tick) : day \in 6 .. 8, tick \in 1 .. 2}
       \cup {Zone(2, 1, day, tick) : day \in 6 .. 8, tick \in 1 .. 2}
       \cup {Zone(-2, -1, day, 4) : day \in 6 .. 8} \cup {Zone(-1, -2, day, 3) : day \in 6 .. 8}

\* Two orders, one to a page: lists that shift while they are read.  Lines of two
\* pieces, so that pieces are told apart from lines.
Pages == INSTANCE OrderPages WITH
    Orders <- 1 .. 2, Accounts <- {"a"}, Customers <- {"c"}, Phones <- {"p", "q"},
    Items <- {1}, Quantities <- {2}, Limit <- 1, MaxClock <- 1, orders <- booked

-----------------------------------------------------------------------------
(* Customers *)

\* Phones of three digits after the 0.
People == INSTANCE Customers WITH
    Requests <- Three, Phones <- {"n1", "n2"}, Deleted <- Gone, Idle <- Nothing, request <- asked,
    Digits <- {0, 4, 8, 9}, NationalLength <- 3, MaxTyped <- 6,
    Known <- {<<0, 8, 4, 9>>, <<0, 9, 8, 4>>, <<0, 0, 8, 9>>}

Places == INSTANCE Customers WITH
    Requests <- Three, Phones <- {"n1"}, Deleted <- Gone, Idle <- Nothing, request <- asked,
    Digits <- {}, NationalLength <- 0, MaxTyped <- 0, Known <- {}

-----------------------------------------------------------------------------
(* Reminders and e-mails *)

\* One replica and two days, two orders on two pages; any order at any moment of a day
\* of four ticks.
Refresh == INSTANCE ReminderRefresh WITH
    Replicas <- {"p"}, OwnerTokens <- Two, LeaseTime <- 1, MaxCrashes <- 0,
    Orders <- {1, 2}, PageSize <- 1, Days <- 2, DayLength <- 4, Horizon <- 13

\* Two e-mails of one order, two workers.
Mails == INSTANCE RentalEmailQueue WITH
    Emails <- {1, 2}, OrderOf <- <<"order", "order">>, Workers <- Two, MaxAttempts <- 2,
    RetryWindow <- 3, ClaimTime <- 1, Stall <- 1, Dedup <- 5, Settings <- 1, late <- stalled

-----------------------------------------------------------------------------
(* Pictures *)

\* Evidence of one order, when the outcome of a commit is known in the end ...
Kept == INSTANCE EvidenceUpload WITH Requests <- Three, InDoubt <- FALSE
\* ... and when it may still be under way.
Doubtful == INSTANCE EvidenceUpload WITH Requests <- Three, InDoubt <- TRUE

\* Two products with one folder, a picture and a page that claims to be one.
Products == {"p1", "p2"}
Folder == [p \in Products |-> "dress"]
Photos == INSTANCE ProductMedia WITH
    Requests <- Three, Files <- {"photo", "page"}, Overlap <- FALSE,
    FormatOf <- [f \in {"photo", "page"} |-> IF f = "photo" THEN "jpeg" ELSE "html"]
\* Requests about one picture at the same time.
Overlapping == INSTANCE ProductMedia WITH
    Requests <- Three, Files <- {"photo"}, FormatOf <- [f \in {"photo"} |-> "jpeg"], Overlap <- TRUE

\* Three rows, two of them links to one file.
Moving == INSTANCE MediaSync WITH
    N <- 3, Picture <- <<"photo 1", "photo 2", "photo 1">>,
    CacheFile <- <<"file 1", "file 2", "file 1">>, Concurrency <- 2, MaxRetries <- 2,
    Limits <- {0, 1}, BadAnswers <- {"page"}, Faults <- TRUE,
    key <- storageKey, objects <- bucket

ASSUME ConstantsOK ==
    /\ Pages!IdentityAssumption /\ Pages!LimitAssumption /\ Pages!QuantityAssumption
    /\ Refresh!HorizonAssumption /\ Refresh!PagesAssumption
    /\ Refresh!LeaseTimeAssumption /\ Refresh!MaxCrashesAssumption
    /\ Mails!EmailsAssumption /\ Mails!WindowAssumption
    /\ Kept!EvidenceAssumption /\ Doubtful!EvidenceAssumption
    /\ Photos!FolderAssumption /\ Photos!FormatAssumption /\ Photos!OverlapAssumption
    /\ Moving!SizeAssumption /\ Moving!PictureAssumption
    /\ Moving!AnswersAssumption /\ Moving!LimitsAssumption

-----------------------------------------------------------------------------
figureVars == <<zone, now, orders, payments, expenses>>
pageVars == <<booked, phone, clock, walk>>
customerVars == <<rows, asked, addresses, moved>>
ruleVars == <<rental, moment>>
refreshVars == <<lease, run, granted, intruded, crashes, today, due, reminder, scan>>
mailVars == <<row, worker, stalled, mailed, key, payload, clash, settings>>
pictureVars == <<order, doubtful, archived, media, objects, late, request, faulty>>
syncVars == <<storageKey, source, cache, bucket, job, work, clean>>
allVars == <<part, figureVars, pageVars, typed, customerVars, ruleVars, refreshVars,
             mailVars, pictureVars, syncVars>>

Off == "off"
Evidence == {"kept", "doubtful"}
Gallery == {"photos", "overlapping"}

Init ==
    /\ part \in {"dashboard", "finance", "time", "pages", "phone", "people", "places",
                 "rules", "refresh", "mails", "moving"} \cup Evidence \cup Gallery
    /\ \/ part = "dashboard" /\ Dashboard!InitShop
       \/ part = "finance" /\ Finance!InitShop
       \/ part = "time" /\ Time!InitCalendar /\ orders = Off /\ payments = Off /\ expenses = Off
       \/ /\ part \notin {"dashboard", "finance", "time"}
          /\ zone = Off /\ now = Off /\ orders = Off /\ payments = Off /\ expenses = Off
    /\ \/ part = "pages" /\ Pages!Init
       \/ part # "pages" /\ booked = Off /\ phone = Off /\ clock = Off /\ walk = Off
    /\ \/ part = "phone" /\ People!TypingInit
       \/ part # "phone" /\ typed = Off
    /\ \/ part = "people" /\ People!Init
       \/ part = "places" /\ Places!Init
       \/ /\ part \notin {"people", "places"}
          /\ rows = Off /\ asked = Off /\ addresses = Off /\ moved = Off
    /\ \/ part = "rules" /\ Refresh!RulesInit
       \/ part # "rules" /\ rental = Off /\ moment = Off
    /\ \/ part = "refresh" /\ Refresh!RefreshInit
       \/ /\ part # "refresh"
          /\ lease = Off /\ run = Off /\ granted = Off /\ intruded = Off /\ crashes = Off
          /\ today = Off /\ due = Off /\ reminder = Off /\ scan = Off
    /\ \/ part = "mails" /\ Mails!MailInit
       \/ /\ part # "mails"
          /\ row = Off /\ worker = Off /\ stalled = Off /\ mailed = Off
          /\ key = Off /\ payload = Off /\ clash = Off /\ settings = Off
    /\ \/ /\ \/ part = "kept" /\ Kept!EvidenceInit
             \/ part = "doubtful" /\ Doubtful!EvidenceInit
          /\ archived = Off /\ media = Off
       \/ /\ \/ part = "photos" /\ Photos!MediaInit
             \/ part = "overlapping" /\ Overlapping!MediaInit
          /\ order = Off /\ doubtful = Off
       \/ /\ part \notin Evidence \cup Gallery
          /\ order = Off /\ doubtful = Off /\ archived = Off /\ media = Off
          /\ objects = Off /\ late = Off /\ request = Off /\ faulty = Off
    /\ \/ part = "moving" /\ Moving!Init
       \/ /\ part # "moving"
          /\ storageKey = Off /\ source = Off /\ cache = Off /\ bucket = Off
          /\ job = Off /\ work = Off /\ clean = Off

Next ==
    /\ part' = part
    /\ \/ /\ \/ part = "dashboard" /\ Dashboard!NextShop
             \/ part = "finance" /\ Finance!NextShop
             \/ part = "time" /\ Time!Tick /\ UNCHANGED <<orders, payments, expenses>>
          /\ UNCHANGED <<pageVars, typed, customerVars, ruleVars, refreshVars, mailVars,
                         pictureVars, syncVars>>
       \/ /\ part = "pages" /\ Pages!Next
          /\ UNCHANGED <<figureVars, typed, customerVars, ruleVars, refreshVars, mailVars,
                         pictureVars, syncVars>>
       \/ /\ part = "phone" /\ People!Typing
          /\ UNCHANGED <<figureVars, pageVars, customerVars, ruleVars, refreshVars, mailVars,
                         pictureVars, syncVars>>
       \/ /\ \/ part = "people" /\ People!People
             \/ part = "places" /\ Places!Places
          /\ UNCHANGED <<figureVars, pageVars, typed, ruleVars, refreshVars, mailVars,
                         pictureVars, syncVars>>
       \/ /\ part = "rules" /\ Refresh!RulesNext
          /\ UNCHANGED <<figureVars, pageVars, typed, customerVars, refreshVars, mailVars,
                         pictureVars, syncVars>>
       \/ /\ part = "refresh" /\ Refresh!RefreshNext
          /\ UNCHANGED <<figureVars, pageVars, typed, customerVars, ruleVars, mailVars,
                         pictureVars, syncVars>>
       \/ /\ part = "mails" /\ Mails!MailNext
          /\ UNCHANGED <<figureVars, pageVars, typed, customerVars, ruleVars, refreshVars,
                         pictureVars, syncVars>>
       \/ /\ \/ /\ \/ part = "kept" /\ Kept!EvidenceNext
                   \/ part = "doubtful" /\ Doubtful!EvidenceNext
                /\ UNCHANGED <<archived, media>>
             \/ /\ \/ part = "photos" /\ Photos!MediaNext
                   \/ part = "overlapping" /\ Overlapping!MediaNext
                /\ UNCHANGED <<order, doubtful>>
          /\ UNCHANGED <<figureVars, pageVars, typed, customerVars, ruleVars, refreshVars,
                         mailVars, syncVars>>
       \/ /\ part = "moving" /\ Moving!Next
          /\ UNCHANGED <<figureVars, pageVars, typed, customerVars, ruleVars, refreshVars,
                         mailVars, pictureVars>>

Spec == Init /\ [][Next]_allVars

Symmetry == Permutations(Two)

-----------------------------------------------------------------------------
(* Properties *)

\* The revenue of the dashboard and the totals of the customers are the revenue report's; the
\* finance page's figures of a period are the sums of its days', and its pages hold every
\* entry (the page and the reports count differently and are not compared); days, weeks and
\* months are whole in the shop's zone; lists show every order; a customer is one row per
\* phone and found by every way of typing it (ShopFigures, OrderPages, Customers).
FiguresAgree ==
    /\ part = "dashboard" => /\ Dashboard!DashboardMatchesReports
                             /\ Dashboard!CustomersAddUp
                             /\ Dashboard!MostUrgentAreShown
    /\ part = "finance" => Finance!PeriodsAddUp /\ Finance!PagesHoldEveryEntry
    /\ part = "time" => Time!DayIsWhole /\ Time!PeriodsAreWhole /\ Time!ChartHasItsDays
    /\ part = "pages" => Pages!TypeOK /\ Pages!WalkMissesNothing /\ Pages!PagesAgree
    /\ part = "phone" => People!NormalIsCanonical /\ People!FoundWhileTyping
    /\ part = "people" => /\ People!TypeOK
                          /\ People!BookingsAgree
                          /\ People!BookingsFindTheWinner
                          /\ People!EligibilityAgrees

\* A reminder is due when the rules say so, an e-mail marked sent was sent, in the order
\* of events; a picture that something refers to is stored, as what it is, and one that
\* nothing refers to is not left behind without a fault (ReminderRefresh,
\* RentalEmailQueue, EvidenceUpload, ProductMedia, MediaSync).
MessagesAndFilesAreKept ==
    /\ part = "rules" => Refresh!LosslessWorkset /\ Refresh!ReturnIsAnnounced
    /\ part = "refresh" => Refresh!RefreshTypeOK
    /\ part = "mails" => Mails!MailTypeOK /\ Mails!SentIsTrue /\ Mails!InOrder
    /\ part = "kept" => Kept!EvidenceIsKept
    /\ part = "doubtful" => Doubtful!EvidenceTypeOK /\ Doubtful!NoOrphanWithoutFault
    /\ part = "photos" => /\ Photos!MediaTypeOK
                          /\ Photos!ServedAsWhatItIs
                          /\ Photos!ShownPictureIsStored
    /\ part = "overlapping" => Overlapping!NothingIsLeftBehind
    /\ part = "moving" => /\ Moving!TypeOK
                          /\ Moving!KeyHasItsObject
                          /\ Moving!KeyIsOfItsSource
                          /\ Moving!SuccessIsComplete

\* What no step does: lose what an order owed when it is settled, skip a day between two
\* periods, leave two defaults, revive a reminder or a settled e-mail, write reminders
\* that are not due, replace recorded evidence, write anything in a dry run.
OfficeSteps ==
    [][/\ part = "dashboard" => Dashboard!SettlementClosesWhatIsOwed
       /\ part = "time" => Time!PeriodsFollow
       /\ part = "places" => Places!DefaultReplaces
       /\ part = "refresh" => Refresh!TerminalStays /\ Refresh!RefreshIsExact
       /\ part = "mails" => Mails!FinalStays
       /\ part = "doubtful" => Doubtful!RecordedOnce
       /\ part = "moving" => Moving!DryRunChangesNothing]_allVars
=============================================================================
