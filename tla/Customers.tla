----------------------------- MODULE Customers -----------------------------
(***************************************************************************)
(* The customers of one shop.  Clerks create and change them, bookings of  *)
(* the web shop find or create the one of a phone number, and both decide  *)
(* on reads made before their writes; only the unique index on the phone   *)
(* is checked with the write.  Phones are canonical, as below.       *)
(* No command archives a customer, but every query allows for it.          *)
(***************************************************************************)
EXTENDS Integers, FiniteSets, Sequences, SequencesExt

CONSTANTS Requests,   \* requests, each made once: a customer's number is the request that made it
          Phones,
          Deleted,    \* no such row
          Idle,       \* a request not made yet
          Digits,          \* at least 0, 8 and 4
          Separator,       \* any of the characters the code drops
          Plus,
          NationalLength,  \* 9 in the code
          Known,           \* the canonical phones of the customers a clerk looks for
          MaxTyped         \* bound on what is typed

VARIABLES rows,       \* customers: [phone, status, archived]
          request,    \* what each request waits for, or its answer
          addresses,  \* address -> is it the default, of the one customer at hand
          moved,      \* phones some customer gave up
          typed       \* the characters a clerk typed so far
vars == <<rows, request, addresses, moved>>

Exists(c) == rows[c] # Deleted
Init == /\ rows = [r \in Requests |-> Deleted]
        /\ request = [r \in Requests |-> Idle]
        /\ addresses = << >> /\ moved = {}

New(phone) == [phone |-> phone, status |-> "ACTIVE", archived |-> FALSE]
Holders(phone) == {c \in Requests : Exists(c) /\ rows[c].phone = phone}

\* listing
Listed == {c \in Requests : Exists(c) /\ ~rows[c].archived}
\* mutant of LookedUp: without the status
AnyStatus == Listed
LookedUp == {c \in Listed : rows[c].status = "ACTIVE"}
\* creationValidator.customerExists
Orderable(c) == Exists(c) /\ rows[c].status = "ACTIVE" /\ ~rows[c].archived
\* assertBookingCustomerEligible
Bookable(c) == ~(rows[c].archived \/ rows[c].status # "ACTIVE")

-----------------------------------------------------------------------------
(* Steps of a request *)

At(r, step) == request[r] # Idle /\ request[r].step = step
Waits(step, phone, of) == [step |-> step, phone |-> phone, of |-> of]
To(r, step) == request' = [request EXCEPT ![r].step = step]
Answer(r, step, of) == request' = [request EXCEPT ![r] = Waits(step, @.phone, of)]
Unchanged == UNCHANGED <<rows, addresses, moved>>

\* mutant of PhoneIsFree: an index that is not unique
Unindexed(c, phone) == TRUE
\* the unique index on shop and phone, for a row c
PhoneIsFree(c, phone) == Holders(phone) \subseteq {c}

-----------------------------------------------------------------------------
(* Bookings *)

\* mutant of Resolve: the customer the booking tried to create
ResolveOwn(r, c) == IF Bookable(c) THEN Answer(r, "booked", r) ELSE Answer(r, "refused", c)
Resolve(r, c) == IF Bookable(c) THEN Answer(r, "booked", c) ELSE Answer(r, "refused", c)

\* the first read; archived customers hold their phones too
BookFind(r, phone) ==
  /\ request[r] = Idle
  /\ request' = [request EXCEPT ![r] =
       IF Holders(phone) = {} THEN Waits("book", phone, r)
       ELSE LET c == CHOOSE x \in Holders(phone) : TRUE
            IN Waits(IF Bookable(c) THEN "booked" ELSE "refused", phone, c)]
  /\ Unchanged

BookCreate(r) ==
  /\ At(r, "book")
  /\ IF PhoneIsFree(r, request[r].phone)
     THEN rows' = [rows EXCEPT ![r] = New(request[r].phone)] /\ Answer(r, "booked", r)
     ELSE rows' = rows /\ To(r, "winner")
  /\ UNCHANGED <<addresses, moved>>

\* mutant of Winners: those that are not archived, as findByNormalizedPhone reads them
KeptHolders(phone) == Holders(phone) \cap Listed
\* findBookingCustomer after the conflict
Winners(phone) == Holders(phone)
BookWinner(r) ==
  /\ At(r, "winner")
  /\ \/ \E c \in Winners(request[r].phone) : Resolve(r, c)
     \/ Winners(request[r].phone) = {} /\ Answer(r, "failed", r)   \* the conflict itself
  /\ Unchanged

-----------------------------------------------------------------------------
(* Clerks *)

\* findByNormalizedPhone
Duplicates(phone) == Holders(phone) \cap Listed

CreateCheck(r, phone) ==
  /\ request[r] = Idle
  /\ request' = [request EXCEPT ![r] =
       Waits(IF Duplicates(phone) = {} THEN "create" ELSE "conflict", phone, r)]
  /\ Unchanged

\* the customer and its first note; any unique conflict is reported as the phone's
Create(r) ==
  /\ At(r, "create")
  /\ IF PhoneIsFree(r, request[r].phone)
     THEN rows' = [rows EXCEPT ![r] = New(request[r].phone)] /\ Answer(r, "done", r)
     ELSE rows' = rows /\ Answer(r, "conflict", r)
  /\ UNCHANGED <<addresses, moved>>

UpdateCheck(r, c, phone) ==
  /\ request[r] = Idle /\ c # r
  /\ request' = [request EXCEPT ![r] =
       Waits(IF Duplicates(phone) \subseteq {c} THEN "find" ELSE "conflict", phone, c)]
  /\ Unchanged
UpdateFind(r) ==
  /\ At(r, "find")
  /\ To(r, IF request[r].of \in Listed THEN "update" ELSE "none")
  /\ Unchanged
\* the phone changes, or the status does
Update(r, status) ==
  /\ At(r, "update")
  /\ LET c == request[r].of  phone == request[r].phone
     IN IF PhoneIsFree(c, phone)
        THEN /\ rows' = [rows EXCEPT ![c].phone = phone, ![c].status = status]
             /\ moved' = IF rows[c].phone = phone THEN moved ELSE moved \cup {rows[c].phone}
             /\ To(r, "done")
        ELSE UNCHANGED <<rows, moved>> /\ To(r, "conflict")
  /\ UNCHANGED addresses

Archive(c) == /\ c \in Listed /\ rows' = [rows EXCEPT ![c].archived = TRUE]
              /\ UNCHANGED <<request, addresses, moved>>

-----------------------------------------------------------------------------
(* Addresses of one customer.  updateMany changes the rows its snapshot    *)
(* shows; an address another request adds meanwhile is not among them.     *)

Added == DOMAIN addresses
Defaults == {a \in Added : addresses[a]}
AddressCheck(r, default) ==
  /\ request[r] = Idle
  /\ request' = [request EXCEPT ![r] = [step |-> IF default THEN "clear" ELSE "add", seen |-> {}]]
  /\ Unchanged
\* the transaction's first statement
ClearStart(r) ==
  /\ At(r, "clear")
  /\ request' = [request EXCEPT ![r] = [step |-> "default", seen |-> Added]]
  /\ Unchanged
\* mutant of Cleared: the addresses stay what they were
Uncleared(a, seen) == addresses[a]
Cleared(a, seen) == addresses[a] /\ a \notin seen
AddDefault(r) ==
  /\ At(r, "default")
  /\ addresses' = [a \in Added \cup {r} |-> a = r \/ Cleared(a, request[r].seen)]
  /\ To(r, "added") /\ UNCHANGED <<rows, moved>>
AddAddress(r) ==
  /\ At(r, "add")
  /\ addresses' = [a \in Added \cup {r} |-> a \in Defaults]
  /\ To(r, "added") /\ UNCHANGED <<rows, moved>>
\* updateAddress: the default is replaced in the same way.  A request that leaves
\* isDefault out carries the DTO's initial value, FALSE, and clears the flag.
UpdateAddress(r, a) ==
  /\ At(r, "default") /\ a \in Added
  /\ addresses' = [b \in Added |-> b = a \/ Cleared(b, request[r].seen)]
  /\ To(r, "updated") /\ UNCHANGED <<rows, moved>>
ChangeAddress(r, a) ==
  /\ At(r, "add") /\ a \in Added
  /\ addresses' = [addresses EXCEPT ![a] = FALSE]
  /\ To(r, "updated") /\ UNCHANGED <<rows, moved>>
DeleteAddress(r, a) ==
  /\ request[r] = Idle /\ a \in Added
  /\ addresses' = [b \in Added \ {a} |-> addresses[b]]
  /\ request' = [request EXCEPT ![r] = [step |-> "deleted", seen |-> {}]]
  /\ UNCHANGED <<rows, moved>>

-----------------------------------------------------------------------------

People == \E r \in Requests :
            \/ \E phone \in Phones : \/ BookFind(r, phone) \/ CreateCheck(r, phone)
                                     \/ \E c \in Requests : Exists(c) /\ UpdateCheck(r, c, phone)
            \/ BookCreate(r) \/ BookWinner(r) \/ Create(r) \/ UpdateFind(r)
            \/ \E status \in {"ACTIVE", "BLOCKED"} : Update(r, status)
            \/ Archive(r)
Places == \E r \in Requests :
            \/ \E default \in BOOLEAN : AddressCheck(r, default)
            \/ ClearStart(r) \/ AddDefault(r) \/ AddAddress(r)
            \/ \E a \in Added : UpdateAddress(r, a) \/ ChangeAddress(r, a) \/ DeleteAddress(r, a)
Spec == Init /\ [][People]_vars
SpecPlaces == Init /\ [][Places]_vars

-----------------------------------------------------------------------------
(* Properties *)

\* Customers are whole rows and no two of them, archived ones included, share a
\* phone, whatever bookings, creations and changes race each other.
TypeOK ==
  /\ \A c \in Requests : Exists(c) =>
       rows[c] \in [phone : Phones, status : {"ACTIVE", "BLOCKED"}, archived : BOOLEAN]
  /\ \A phone \in Phones : Cardinality(Holders(phone)) <= 1
  /\ moved \subseteq Phones

Booked(r) == At(r, "booked")
\* Bookings with one phone are booked for one customer, whoever created it first,
\* unless a clerk has given the phone to another in between.
BookingsAgree ==
  \A r, s \in Requests :
    Booked(r) /\ Booked(s) /\ request[r].phone = request[s].phone /\ request[r].phone \notin moved
      => request[r].of = request[s].of

\* A booking that loses the race to create its customer takes the winner's; only a
\* phone given up in that very moment makes it fail.
BookingsFindTheWinner == \A r \in Requests : At(r, "failed") => request[r].phone \in moved

\* The admin's look-up offers exactly the customers that order creation accepts and
\* that a web booking with their phone is booked for.
EligibilityAgrees ==
  /\ LookedUp = {c \in Requests : Orderable(c)}
  /\ LookedUp = {c \in Requests : Exists(c) /\ Bookable(c)}

\* Setting a default leaves no other default among the addresses that were there
\* when the request began to clear them.
DefaultReplaces ==
  \A r \in Requests : At(r, "default") /\ request'[r] # request[r] =>
    \A a \in request[r].seen \cap DOMAIN addresses' :
      addresses'[a] => {b \in request[r].seen \cap DOMAIN addresses' : addresses'[b]} = {a}

-----------------------------------------------------------------------------
(***************************************************************************)
(* The canonical phone of a customer, and the search for one while a clerk *)
(* types.  A phone is 0 and NationalLength digits; it may be written with  *)
(* separators and with +84 or 84 in place of the 0.                        *)
(***************************************************************************)

IsDigit(x) == x \in Digits
OnlyDigits(text) == SelectSeq(text, IsDigit)
Compact(text) == SelectSeq(text, LAMBDA x : x # Separator)
Starts(text, head) == IsPrefix(head, text)
After(text, n) == SubSeq(text, n + 1, Len(text))
Invalid == << >>

\* mutant of National: only the form with the plus
PlusOnly(c) == IF Starts(c, <<Plus, 8, 4>>) THEN <<0>> \o After(c, 3) ELSE c
National(c) == IF Starts(c, <<Plus, 8, 4>>) THEN <<0>> \o After(c, 3)
               ELSE IF Starts(c, <<8, 4>>) THEN <<0>> \o After(c, 2) ELSE c
IsNational(c) == Len(c) = NationalLength + 1 /\ c[1] = 0 /\ \A i \in DOMAIN c : IsDigit(c[i])
\* a plus may only lead; what is left of one is not a national number
Normalize(text) == LET n == National(Compact(text)) IN IF IsNational(n) THEN n ELSE Invalid

\* mutant of Partial: the country code is kept
AsTyped(text) == OnlyDigits(text)
\* normalizeCustomerPhoneSearch of what is not a whole phone
Partial(text) == LET d == OnlyDigits(text)
                 IN IF Starts(d, <<8, 4>>) /\ Len(d) > 2 THEN <<0>> \o After(d, 2) ELSE d
SearchKey(text) == IF Normalize(text) # Invalid THEN Normalize(text) ELSE Partial(text)
Within(phone, part) == \E i \in 0..Len(phone) : Starts(After(phone, i), part)
\* the phones a list or a look-up shows
Found(text) == {phone \in Known : SearchKey(text) # << >> /\ Within(phone, SearchKey(text))}

TypingInit == typed = << >>
Type(x) == Len(typed) < MaxTyped /\ typed' = Append(typed, x)
Erase == typed # << >> /\ typed' = << >>
Typing == Erase \/ \E x \in Digits \cup {Separator, Plus} : Type(x)
TypingSpec == TypingInit /\ [][Typing]_typed

-----------------------------------------------------------------------------
(* Properties *)

\* The ways a phone is written, separators aside.
Forms(phone) == {phone, <<8, 4>> \o Tail(phone), <<Plus, 8, 4>> \o Tail(phone)}
AllPhones == {s \in [1..(NationalLength + 1) -> Digits] : s[1] = 0}

\* Exactly the three forms of a phone are accepted, each as the phone itself, which is
\* accepted as it stands; so a customer has one key however the phone is written.
NormalIsCanonical ==
  IF Normalize(typed) = Invalid THEN \A phone \in AllPhones : Compact(typed) \notin Forms(phone)
  ELSE /\ Compact(typed) \in Forms(Normalize(typed))
       /\ Normalize(Normalize(typed)) = Normalize(typed)

\* A customer is found by every beginning of the phone, in any form, from the first
\* digit after the country code on, and is never lost while the rest is typed.
TooShort == {<< >>, <<Plus>>, <<Plus, 8>>, <<Plus, 8, 4>>, <<8>>, <<8, 4>>}
FoundWhileTyping ==
  \A phone \in Known : \A form \in Forms(phone) :
    Starts(form, Compact(typed)) /\ Compact(typed) \notin TooShort => phone \in Found(typed)
=============================================================================
