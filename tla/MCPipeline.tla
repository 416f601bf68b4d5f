----------------------------- MODULE MCPipeline -----------------------------
(***************************************************************************)
(* The way of a listing through the worker, stage by stage: the frames of  *)
(* a stream, the records in a message, the texts in a record, matching and *)
(* ranking, the layout of what matched, the plan made of it, and the body  *)
(* it is sent as.  A behaviour stays in one stage and enumerates what that *)
(* stage may be given.                                                     *)
(***************************************************************************)
EXTENDS Framing

VARIABLES stage,   \* which stage is looked at
          given    \* what it was given

Records  == INSTANCE MCRecords
Text     == INSTANCE MCText
Matching == INSTANCE MCMatching
Layout   == INSTANCE MCLayout
Plan     == INSTANCE MCPlan
Wire     == INSTANCE MCWire

Stages == {"framing", "records", "text", "matching", "layout", "plan", "wire"}

MCInit ==
  /\ stage \in Stages
  /\ Init   \* of the stream
  /\ CASE stage = "framing"  -> given = <<>>
       [] stage = "records"  -> Records!Init
       [] stage = "text"     -> Text!Init
       [] stage = "matching" -> Matching!Init
       [] stage = "layout"   -> Layout!Init
       [] stage = "plan"     -> Plan!Init
       [] stage = "wire"     -> Wire!Init

MCNext ==
  /\ UNCHANGED stage
  /\ \/ stage = "framing"  /\ Next /\ UNCHANGED given
     \/ /\ UNCHANGED vars
        /\ \/ stage = "records"  /\ Records!Next
           \/ stage = "text"     /\ Text!Next
           \/ stage = "matching" /\ Matching!Next
           \/ stage = "layout"   /\ Layout!Next
           \/ stage = "plan"     /\ Plan!Next
           \/ stage = "wire"     /\ Wire!Next

MCSpec == MCInit /\ [][MCNext]_<<stage, given, vars>>

-----------------------------------------------------------------------------
(***************************************************************************)
(* Framing: what either end takes from a stream depends on its bytes only, *)
(* never on how they were cut into reads, and it ends cleanly only behind  *)
(* a whole frame (framing.rs, _zrush_netstring_take).                      *)
(***************************************************************************)
StreamsIgnoreChunking ==
  TypeOK /\ WorkerIgnoresChunking /\ ShellIgnoresChunking /\ CleanEndIsWholeFrames

(***************************************************************************)
(* Records: a candidate has its fields from one record and the nearest     *)
(* batch header; what the shell sends of a capture and of its history is   *)
(* what the worker reads (record.rs, the compadd wrapper).                 *)
(***************************************************************************)
RecordsAreReadAsSent ==
  stage = "records" =>
    Records!FieldsComeFromTheirRecord /\ Records!SentIsRead /\ Records!HistoryIsNewestPrefix

(***************************************************************************)
(* Text: lossy decoding loses and invents nothing, texts may be joined     *)
(* after decoding, and a cut text is the longest that fits (layout.rs).    *)
(***************************************************************************)
TextsAreKept ==
  stage = "text" => Text!CharsPartitionBytes /\ Text!JoiningKeepsChars /\ Text!CutIsMaximal

(***************************************************************************)
(* Matching: the one-edit search finds what exists, a wider mode matches   *)
(* no less, spans show the match, ranking moves nothing without a reason,  *)
(* and the common prefix is the longest (matching.rs, ranking.rs).         *)
(***************************************************************************)
MatchesAreRight ==
  stage = "matching" =>
    /\ Matching!EditSearchIsExhaustive /\ Matching!ModesAreCumulative /\ Matching!SpansShowTheMatch
    /\ Matching!RankingIsStable /\ Matching!CommonPrefixIsLongest

(***************************************************************************)
(* Layout: each cell and highlight cuts its own candidate out of the       *)
(* listing, arrows follow what is drawn, and it fits (layout.rs).          *)
(***************************************************************************)
ListingsAreTrue ==
  stage = "layout" =>
    /\ Layout!CellsShowTheirCandidates /\ Layout!HighlightsCoverTheMatch
    /\ Layout!NavigationFollowsTheGrid /\ Layout!ListingFits

(***************************************************************************)
(* Plans: confirming a position inserts the candidate shown there, the     *)
(* common prefix keeps all matches, windows of the history cover them      *)
(* once, and the shell accepts every plan (plan.rs, insert.rs).  On the    *)
(* wire a plan is read back whole, and the shell and the Rust parser       *)
(* refuse the same damaged ones (wire.rs, _zrush_parse_plan).              *)
(***************************************************************************)
PlansActAsShown ==
  /\ stage = "plan" =>
       /\ Plan!InsertsAreWhatIsShown /\ Plan!CommonPrefixKeepsMatches
       /\ Plan!HistoryWindowsCoverTheMatches /\ Plan!PlansAreAccepted
  /\ stage = "wire" => Wire!PlansArriveWhole /\ Wire!ReadersAgree
=============================================================================
