------------------------------ MODULE CaseBook ------------------------------
(***************************************************************************)
(* What answering by record promises (app/services/support.py and           *)
(* app/services/cases.py), without how it is done: a book, in which every   *)
(* decision is entered once, on a page of its own, and never rewritten; and *)
(* letters, at most one for a request, each copied from a page of that      *)
(* request.  A request may take more than one page, where its sender was    *)
(* not answered and wrote again, and takes none after its letter.           *)
(***************************************************************************)
CONSTANTS
    Requests,    \* what is answered
    References,  \* the pages
    NoEntry,     \* a page nothing is written on
    NoLetter     \* nobody has answered yet

VARIABLES
    book,        \* what is entered on each page: [request, reply, ...]
    letters      \* what each request was answered

bookVars == <<book, letters>>

BookInit ==
    /\ book = [c \in References |-> NoEntry]
    /\ letters = [r \in Requests |-> NoLetter]

\* cases.record: whatever was decided of a request still unanswered.
Enters(c) ==
    /\ book[c] = NoEntry
    /\ book'[c].request \in {r \in Requests : letters[r] = NoLetter}
    /\ book' = [book EXCEPT ![c] = book'[c]]
    /\ UNCHANGED letters

\* The reply is what was entered of the request, and says where.
Sends(r, c) ==
    /\ letters[r] = NoLetter
    /\ book[c] # NoEntry /\ book[c].request = r
    /\ letters' = [letters EXCEPT ![r] = [case |-> c, reply |-> book[c].reply]]
    /\ UNCHANGED book

BookNext ==
    \/ \E c \in References : Enters(c)
    \/ \E r \in Requests, c \in References : Sends(r, c)

BookSpec == BookInit /\ [][BookNext]_bookVars

=============================================================================
