----------------------------- MODULE Portfolio -----------------------------
(***************************************************************************)
(* Portfolio holdings (portfolio_holdings.py and its router): the requests *)
(* of the server's threads change either a file, each by a load and a save *)
(* of the whole of it without a lock, or a BigQuery table, each by one     *)
(* statement per row.  A holding has two fields a PATCH may change apart.  *)
(***************************************************************************)
EXTENDS Integers, FiniteSets

CONSTANTS Requests, \* threads that serve a request
          MaxIds    \* bound on the holdings ever created

ASSUME PortfolioConstants == MaxIds \in Nat

Fields == {"shares", "notes"}
Ids    == 1..MaxIds

VARIABLES table,      \* PORTFOLIO_STORE is bigquery and a table is set
          holdings,   \* the rows of the store
          edit,       \* [Requests -> the change it makes, and the rows it loaded]
          created,    \* ids given out
          \* what happened so far
          expected,   \* the rows as the answered requests leave them
          doubtful,   \* ids of the rows of requests answered with an error
          crossed     \* two requests changed the file at the same time

portfolioVars == <<table, holdings, edit, created, expected, doubtful, crossed>>

None   == [op |-> "none", ids |-> {}, field |-> "none", rows |-> {}]
New(i) == [id |-> i, shares |-> 0, notes |-> 0]

PortfolioInit ==
    /\ table \in BOOLEAN
    /\ holdings = {} /\ expected = {} /\ doubtful = {}
    /\ edit = [r \in Requests |-> None]
    /\ created = 0 /\ crossed = FALSE

Has(rows, id) == \E h \in rows : h.id = id

(* What a change makes of the rows: add_holding and import_from_csv,       *)
(* delete_holding, update_holding.                                         *)
Changed(rows, e) ==
    CASE e.op = "add"    -> rows \union {New(i) : i \in e.ids}
      [] e.op = "delete" -> {h \in rows : h.id \notin e.ids}
      [] e.op = "patch"  -> {IF h.id \in e.ids THEN [h EXCEPT ![e.field] = 1] ELSE h : h \in rows}

(* The changes a request may ask for: new holdings (one, or those of a     *)
(* CSV, whose rows are all checked before the first is stored), or one     *)
(* that is listed.  Anything else is answered 404 or 422 and changes       *)
(* nothing.                                                                *)
Changes ==
    {[op |-> "add", ids |-> created + 1 .. created + n, field |-> "none", rows |-> {}] :
        n \in 1..(MaxIds - created)}
    \union {[op |-> "delete", ids |-> {h.id}, field |-> "none", rows |-> {}] : h \in holdings}
    \union {[op |-> "patch", ids |-> {h.id}, field |-> f, rows |-> {}] :
                h \in holdings, f \in Fields}

Created(e) == IF e.op = "add" THEN created + Cardinality(e.ids) ELSE created

(***************************************************************************)
(* The file.                                                               *)
(***************************************************************************)
LoadRows(r) ==
    /\ ~ table /\ edit[r] = None
    /\ \E e \in Changes :
          /\ edit' = [edit EXCEPT ![r] = [e EXCEPT !.rows = holdings]]
          /\ created' = Created(e)
    /\ crossed' = (crossed \/ \E o \in Requests : edit[o] # None)
    /\ UNCHANGED <<table, holdings, expected, doubtful>>

(* Appends to what the file holds now instead of replacing it. *)
SaveRows_Mutant_Appends(r) ==
    /\ ~ table /\ edit[r] # None
    /\ holdings' = holdings \union Changed(edit[r].rows, edit[r])
    /\ expected' = Changed(expected, edit[r])
    /\ edit' = [edit EXCEPT ![r] = None]
    /\ UNCHANGED <<table, created, doubtful, crossed>>

(* save_holdings replaces the file by a temporary one: whole or not at     *)
(* all.  A request that is saved counts as answered, though an import that *)
(* cannot read the file back is told 500.                                  *)
SaveRows(r) ==
    /\ ~ table /\ edit[r] # None
    /\ holdings' = Changed(edit[r].rows, edit[r])
    /\ expected' = Changed(expected, edit[r])
    /\ edit' = [edit EXCEPT ![r] = None]
    /\ UNCHANGED <<table, created, doubtful, crossed>>

(* The server dies, or the disk is full: the temporary file is dropped.    *)
SaveFails(r) ==
    /\ ~ table /\ edit[r] # None
    /\ edit' = [edit EXCEPT ![r] = None]
    /\ UNCHANGED <<table, holdings, created, expected, doubtful, crossed>>

(***************************************************************************)
(* The table.                                                              *)
(***************************************************************************)

(* A DELETE comes after the SELECT that decides about 404, and an UPDATE   *)
(* some time after its client saw the holding.                             *)
TakeUp(r) ==
    /\ table /\ edit[r] = None
    /\ \E e \in Changes : created' = Created(e) /\ edit' = [edit EXCEPT ![r] = e]
    /\ UNCHANGED <<table, holdings, expected, doubtful, crossed>>

(* UPDATE sets the fields of the patch only; DELETE may find nothing.      *)
ChangeRow(r) ==
    /\ table /\ edit[r].op \in {"delete", "patch"}
    /\ holdings' = Changed(holdings, edit[r])
    /\ expected' = Changed(expected, edit[r])
    /\ edit' = [edit EXCEPT ![r] = None]
    /\ UNCHANGED <<table, created, doubtful, crossed>>

First(ids) == CHOOSE i \in ids : \A k \in ids : i <= k

(* INSERT of a new holding: import_from_csv_bigquery inserts its rows one  *)
(* by one, and rows keeps what it has inserted.  The request is answered   *)
(* with the last of them.                                                  *)
InsertRow(r) ==
    /\ table /\ edit[r].op = "add"
    /\ LET i == First(edit[r].ids)
           e == [edit[r] EXCEPT !.ids = @ \ {i}, !.rows = @ \union {New(i)}]
       IN  /\ holdings' = holdings \union {New(i)}
           /\ IF e.ids = {}
              THEN /\ edit' = [edit EXCEPT ![r] = None]
                   /\ expected' = expected \union {h \in holdings' : Has(e.rows, h.id)}
              ELSE edit' = [edit EXCEPT ![r] = e] /\ UNCHANGED expected
    /\ UNCHANGED <<table, created, doubtful, crossed>>

(* The rows a request's next statement is about. *)
Touched(e) == IF e.op = "add" THEN {First(e.ids)} ELSE e.ids

(* A later row is invalid, a statement fails, or the SELECT that reads its *)
(* row back: 422 or 500.  What was inserted so far stays, and the          *)
(* statement itself may have been applied.                                 *)
RequestFails(r) ==
    /\ table /\ edit[r].op # "none"
    /\ LET e == [edit[r] EXCEPT !.ids = Touched(edit[r])]
       IN  /\ holdings' \in {holdings, Changed(holdings, e)}
           /\ doubtful' = doubtful \union {h.id : h \in e.rows} \union e.ids
    /\ edit' = [edit EXCEPT ![r] = None]
    /\ UNCHANGED <<table, created, expected, crossed>>

PortfolioNext ==
    \E r \in Requests : \/ LoadRows(r) \/ SaveRows(r) \/ SaveFails(r)
                        \/ TakeUp(r) \/ ChangeRow(r) \/ InsertRow(r) \/ RequestFails(r)

PortfolioSpec == PortfolioInit /\ [][PortfolioNext]_portfolioVars

(***************************************************************************)
(* Properties.                                                             *)
(***************************************************************************)
PortfolioTypeOK ==
    /\ holdings \subseteq [id : Ids, shares : {0, 1}, notes : {0, 1}]
    /\ \A g, h \in holdings : g.id = h.id => g = h
    /\ doubtful \subseteq Ids /\ created \in 0..MaxIds

Importing(id) == \E r \in Requests : table /\ edit[r].op = "add" /\ Has(edit[r].rows, id)

(* The store is what the answered requests made it: in the file as long as *)
(* no two of them crossed; in the table however they interleave, but for   *)
(* the rows of imports that are under way, and the rows that a request     *)
(* answered with an error was about: it may have changed them.             *)
HoldingsAsAnswered ==
    table \/ ~ crossed =>
        {h \in holdings : h.id \notin doubtful /\ ~ Importing(h.id)}
            = {h \in expected : h.id \notin doubtful}
=============================================================================
