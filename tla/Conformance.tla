----------------------------- MODULE Conformance -----------------------------
(***************************************************************************)
(* The suite every driver is held to (sqlake-conformance), asked of every  *)
(* answer and not of one run against a server nobody else uses.            *)
(***************************************************************************)
EXTENDS Drivers

IsA(tag) == answer # Absent /\ answer.is.tag = tag
To(op) == answer # Absent /\ answer.to.op = op
Promised == Capabilities[kind]
Stood == Absent \notin seen  \* nobody dropped the relation meanwhile
Reshaped == Cardinality({r.columns : r \in seen \ {Absent}}) > 1

TreeStopsWhereCapabilitiesSay ==
    To("children") /\ IsA("Branch") =>
        /\ answer.to.about = "root" => answer.is.names # <<>>
        /\ answer.to.about = "relation" => answer.is.names = <<>>

RelationIsReachableByWalking ==
    To("children") /\ IsA("Branch") /\ answer.to.about = "namespace" /\ Stood =>
        "users" \in ToSet(answer.is.names)

\* A page is never longer than it was asked for, and its rows are as long as the headers.
PageIsNeverLonger ==
    IsA("Page") =>
        /\ answer.to.limit # Absent => Len(answer.is.rows) <= answer.to.limit
        /\ \A row \in ToSet(answer.is.rows) : Len(row) = Len(answer.is.columns)

\* The rows asked for, in the order asked for, from the first on.
PagingMovesTheWindow ==
    IsA("Page") /\ answer.to.about = "users" =>
        \E r \in answer.seen \ {Absent} :
            IsPrefix([k \in 1 .. Len(answer.is.rows) |-> answer.is.rows[k][1][2]],
                     Numbers(r.rows, answer.to))

SortingDoesWhatIsClaimed ==
    /\ To("preview") /\ answer.to.sort # Absent /\ ~Promised.sorts => IsA("Failed")
    /\ IsA("Failed") /\ answer.is.why = "Unsupported" =>
          To("preview") /\ answer.to.sort # Absent /\ ~Promised.sorts

PagePastTheEndStillHasColumns ==
    IsA("Page") /\ answer.to.about = "users" => answer.is.columns # <<>>

MissingRelationIsAnError ==
    To("preview") /\ answer.to.about \in {"missing", "elsewhere"} => IsA("Failed")

EstimatingAnswersWhatTheCapabilityClaims ==
    IsA("Estimate") =>
        answer.is.is = "Known" <=>
            /\ Promised.estimates
            /\ \A q \in DOMAIN answer.heard : ~answer.heard[q].refused /\ answer.heard[q].is # "unsaid"

\* A refusal is an error, and says where if the server did.
ServersRefusalIsAnError ==
    /\ To("execute") /\ answer.to.about = "broken" => IsA("Failed")
    /\ IsA("Failed") /\ ~IsMock(kind) /\ To("execute") =>
          \A q \in DOMAIN answer.heard :
             LET said == answer.heard[q] IN
             said.refused =>
                CASE kind = "postgres" /\ said.is # Absent ->
                       answer.is.at = (IF said.is.of = "Original" THEN said.is.offset ELSE Absent)
                  [] kind = "bigquery" ->
                       answer.is.at = (IF \E m \in Messages : said.is = m /\ Len(m) >= 5
                                                                /\ SubSeq(m, Len(m) - 4, Len(m)) = <<"[", "1", ":", "3", "]">>
                                       THEN <<"1", "3">>
                                       ELSE IF said.is = <<"[", "2", ":", "2", "]">> THEN <<"2", "2">> ELSE Absent)
                  [] OTHER -> TRUE

RelationDescribesItself ==
    IsA("Definition") =>
        /\ answer.is.sections \subseteq Promised.sections
        /\ Stood => \E r \in answer.seen : r.columns = answer.is.columns
        /\ answer.is.ddl # Absent => answer.is.ddl.constraints \cap answer.is.ddl.indexes = {}

MissingRelationCannotBeDescribed ==
    To("describe") /\ answer.to.about \in {"missing", "elsewhere"} => IsA("Failed")

------------------------------------------------------------------------------
\* An answer that leaves something out says so: a branch has every dataset that was
\* there all along, a total is of everything the statement matched, and a job that
\* is not over is no answer.  The gap that is known of: a first page that does not
\* parse is an empty branch (error.rs: "the gap this leaves").
NothingIsLeftOut ==
    /\ IsA("Branch") /\ answer.to.about = "catalog" =>
          IF answer.garbled THEN answer.is.names = <<>> ELSE answer.kept \subseteq ToSet(answer.is.names)
    /\ To("execute") /\ IsA("Page") /\ answer.to.about = "users" =>
          /\ answer.is.columns # <<>>
          /\ answer.is.total # Absent => \E r \in answer.seen \ {Absent} : r.rows = answer.is.total

\* What every driver is held to holds of every answer, whatever others do to the
\* server while it is on its way and whatever goes wrong; nothing is left out of it
\* without its saying so; and a value is under its
\* own header, but for BigQuery, whose headers and rows come of two requests.
KeepsTheContract ==
    /\ NothingIsLeftOut
    /\ TreeStopsWhereCapabilitiesSay
    /\ RelationIsReachableByWalking
    /\ PageIsNeverLonger
    /\ PagingMovesTheWindow
    /\ SortingDoesWhatIsClaimed
    /\ PagePastTheEndStillHasColumns
    /\ MissingRelationIsAnError
    /\ EstimatingAnswersWhatTheCapabilityClaims
    /\ ServersRefusalIsAnError
    /\ RelationDescribesItself
    /\ MissingRelationCannotBeDescribed
    /\ IsA("Page") /\ ~(kind = "bigquery" /\ Reshaped) =>
          \A row \in ToSet(answer.is.rows) : \A j \in 1 .. Len(row) : row[j][1] = answer.is.columns[j]

==============================================================================
