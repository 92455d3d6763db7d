----------------------------- MODULE MCSessionData -----------------------------
(***************************************************************************)
(* What a session serves, side by side: its recording, a pipeline's        *)
(* frames, the event stream, uploads, statistics, replies, the command     *)
(* contract and the media of its steps.  They share no state here, so each *)
(* behaviour runs one of them, its focus, and the others stay where they   *)
(* start.  Statistics are two behaviours, the counts of a session and the  *)
(* samples of a wire, which meet in nothing.                               *)
(***************************************************************************)
EXTENDS Recorder, PipelineLoop, SessionJournal, Uploads, Replies, CommandContract,
        StepMedia

CONSTANT c1

VARIABLE focus

dataVars == <<recorderVars, pipeVars, eventVars, uploadVars, statVars, replyVars, contractVars, mediaVars,
              focus>>

\* Only a behaviour about the contract has a declaration to choose.
DataInit ==
  /\ focus \in {"recorder", "pipeline", "events", "uploads", "counts", "samples", "replies",
                "contract", "media"}
  /\ RecorderInit /\ PipeInit /\ EventInit /\ UploadInit /\ StatInit /\ ReplyInit
  /\ ContractInit /\ MediaInit
  /\ focus # "contract" => decl = (CHOOSE d \in DOMAIN Declared : TRUE) /\ canStep

DataNext ==
  /\ UNCHANGED focus
  /\ \/ /\ focus = "recorder" /\ RecorderNext
        /\ UNCHANGED <<pipeVars, eventVars, uploadVars, statVars, replyVars, contractVars, mediaVars>>
     \/ /\ focus = "pipeline" /\ PipeNext
        /\ UNCHANGED <<recorderVars, eventVars, uploadVars, statVars, replyVars, contractVars, mediaVars>>
     \/ /\ focus = "events" /\ EventNext
        /\ UNCHANGED <<recorderVars, pipeVars, uploadVars, statVars, replyVars, contractVars, mediaVars>>
     \/ /\ focus = "uploads" /\ UploadNext
        /\ UNCHANGED <<recorderVars, pipeVars, eventVars, statVars, replyVars, contractVars, mediaVars>>
     \/ /\ focus = "counts" /\ CountNext
        /\ UNCHANGED <<recorderVars, pipeVars, eventVars, uploadVars, replyVars, contractVars, mediaVars>>
     \/ /\ focus = "samples" /\ SampleNext
        /\ UNCHANGED <<recorderVars, pipeVars, eventVars, uploadVars, replyVars, contractVars, mediaVars>>
     \/ /\ focus = "replies" /\ ReplyNext
        /\ UNCHANGED <<recorderVars, pipeVars, eventVars, uploadVars, statVars, contractVars, mediaVars>>
     \/ /\ focus = "contract" /\ ContractNext
        /\ UNCHANGED <<recorderVars, pipeVars, eventVars, uploadVars, statVars, replyVars, mediaVars>>
     \/ /\ focus = "media" /\ MediaNext
        /\ UNCHANGED <<recorderVars, pipeVars, eventVars, uploadVars, statVars, replyVars, contractVars>>

DataSpec == DataInit /\ [][DataNext]_dataVars

-------------------------------------------------------------------------------
(* The command contract's instance: one declaration of each shape, with the   *)
(* values that are on either side of what it accepts.                         *)

Optional(spec) == Spec1("opt", spec)
Nested  == Spec1("data", [file |-> Plain("upload"), n |-> Plain("int")]) @@ [required |-> {"file"}]
Bounded(spec, low, high) == [spec |-> spec, info |-> [NoInfo EXCEPT !.ge = low, !.le = high]]
Measured(spec, low, high) ==
  [spec |-> spec, info |-> [NoInfo EXCEPT !.minLength = low, !.maxLength = high]]
Bare(spec) == [spec |-> spec, info |-> NoInfo]

Declarations ==
  [int      |-> Bounded(Plain("int"), {1}, {2}),
   float    |-> [spec |-> Plain("float"), info |-> [NoInfo EXCEPT !.ge = {1}, !.default = TRUE]],
   str      |-> Measured(Plain("str"), {1}, {2}),
   bool     |-> Bare(Plain("bool")),
   optint   |-> Bounded(Optional(Plain("int")), {1}, {}),
   literal  |-> Bare(Spec1("literal", {IntVal(1), IntVal(2)})),
   enum     |-> Bare(Spec1("enum", {StrVal(1), StrVal(2)})),
   upload   |-> Bare(Plain("upload")),
   uploads  |-> Bare(Spec1("dict", Plain("upload"))),
   optlist  |-> [spec |-> Optional(Spec1("list", Plain("upload"))),
                 info |-> [NoInfo EXCEPT !.default = TRUE]],
   ints     |-> Bare(Spec1("list", Plain("int"))),
   short    |-> Measured(Spec1("list", Plain("int")), {1}, {2}),
   cover    |-> Measured(Plain("upload"), {1}, {}),
   data     |-> Bare(Nested),
   own      |-> Bare(Spec1("dict", Plain("any")))]

FullReference == MapVal([upload_id |-> StrVal(1), name |-> StrVal(1), mime_type |-> StrVal(1),
                         size |-> IntVal(1)])

SentValues ==
  [int      |-> <<IntVal(1), FloatVal(2), FloatVal(3), BoolVal(TRUE), IntVal(0), IntVal(3), NoneVal>>,
   float    |-> <<IntVal(1), FloatVal(2), FloatVal(1), BoolVal(TRUE)>>,
   str      |-> <<StrVal(1), StrVal(0), StrVal(3), IntVal(1)>>,
   bool     |-> <<BoolVal(TRUE), IntVal(1)>>,
   optint   |-> <<NoneVal, IntVal(1), IntVal(0)>>,
   literal  |-> <<IntVal(1), BoolVal(TRUE), FloatVal(2), StrVal(1), IntVal(3)>>,
   enum     |-> <<StrVal(1), StrVal(3), IntVal(1)>>,
   upload   |-> <<Reference, FullReference, MapVal("upload_id" :> IntVal(1)), NoneVal>>,
   uploads  |-> <<MapVal("a" :> Reference), MapVal("a" :> FullReference), Reference, MapVal(<<>>)>>,
   optlist  |-> <<NoneVal, ListVal(<<Reference, FullReference>>), ListVal(<<Reference, IntVal(1)>>),
                  ListVal(<<>>)>>,
   ints     |-> <<ListVal(<<FloatVal(2), IntVal(1)>>), ListVal(<<FloatVal(1)>>),
                  ListVal(<<BoolVal(TRUE)>>)>>,
   short    |-> <<ListVal(<<FloatVal(2)>>), ListVal(<<>>), StrVal(1)>>,
   cover    |-> <<Reference, FullReference>>,
   data     |-> <<MapVal([file |-> Reference, n |-> FloatVal(2)]),
                  MapVal([file |-> FullReference, other |-> Reference]), MapVal("n" :> IntVal(1))>>,
   own      |-> <<Reference, MapVal("a" :> Reference), ListVal(<<>>)>>]

-------------------------------------------------------------------------------
(* The step media's instance: frames that are whole, short, empty and of the  *)
(* wrong kind, on tracks that exist and one that does not.                    *)

Raw(dtype, shape, size) ==
  [encoding |-> "raw", dtype |-> dtype, shape |-> shape, size |-> size, units |-> <<>>]
H264(units) ==
  [encoding |-> "h264", dtype |-> "", shape |-> <<>>, size |-> 0, units |-> units]
OtherCodec ==
  [encoding |-> "other", dtype |-> "", shape |-> <<>>, size |-> 0, units |-> <<>>]

VideoFrames ==
  {Raw("uint8", <<1, 1, 3>>, 3), Raw("uint8", <<1, 0, 3>>, 0), Raw("uint8", <<1, 1, 3>>, 2),
   H264(<<"sps", "idr", "idr+">>), H264(<<"slice">>), H264(<<"idr", "slice">>), H264(<<"sps">>),
   OtherCodec}
AudioFrames ==
  {Raw("int16", <<1, 2>>, 4), Raw("int16", <<2, 1>>, 4), Raw("uint8", <<1, 2>>, 2)}

TrackInput(t, k, fs) == [track |-> t, kind |-> k, frames |-> fs]
UpTo(S, n) == UNION {[1 .. i -> S] : i \in 0 .. n}

MediaRequests ==
  {<<>>}
  \cup {<<TrackInput("cam", k, fs)>> : k \in {"unspecified", "video", "audio"}, fs \in UpTo(VideoFrames, 2)}
  \cup {<<TrackInput("mic", "unspecified", fs)>> : fs \in UpTo(AudioFrames, 3)}
  \cup {<<TrackInput(t, "unspecified", <<f>>), TrackInput(u, "unspecified", <<g>>)>> :
           t \in {"cam", "mic", "other"}, u \in {"cam", "mic"},
           f \in {Raw("uint8", <<1, 1, 3>>, 3), H264(<<"slice">>), OtherCodec},
           g \in AudioFrames \cup VideoFrames}

MediaBundles == [video : [{"a", "b"} -> {0, 1, 2, 3}], audio : 0 .. 5]

-------------------------------------------------------------------------------
(* Properties *)

\* Every client is answered in the words it knows, on the route its request
\* came by, and hears every broadcast it was there for (runner.py, gateway).
RepliesAreExact == ClientUnderstands /\ AnswersTakeTheirRoute /\ BroadcastsArrive

\* A command that is accepted fits its declaration, reaches the model with the
\* types it declared, and is refused only where its published schema refuses it
\* or is silent on the bound it breaks (core/typespec.py, core/fields.py).
ContractHolds == StartedInputFits /\ ArgumentsArriveTyped /\ SchemaIsHonoured

\* A step reads the frames its request carried, in order, and the output it
\* emits is cut into frames without loss (step_frames.py, input_buffer.py).
MediaIsWhole == StepReadsItsFrames /\ SplitKeepsEverything /\ ReadsInOrder

\* What a request carries, its arguments and its media, arrives as it is declared
\* and as it was sent, and its answer comes back to the client that asked.
ExchangesHold == ContractHolds /\ MediaIsWhole /\ RepliesAreExact
===============================================================================
