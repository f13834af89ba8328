------------------------------- MODULE Rewrite -------------------------------
(***************************************************************************)
(* The arguments of a job, from the user's command line to the ffmpeg      *)
(* command of a worker: the client's parser (src/pkg/cli/args/parser.go),  *)
(* the capabilities the worker detects and registers with                  *)
(* (src/pkg/worker/capabilities/detector.go), BuildArgs, and the encoder   *)
(* rewrite (src/pkg/worker/rewrite_adapter.go, src/pkg/encoder/rewrite).   *)
(*                                                                         *)
(* An argument is a token: a flag, a flag with an inline value, a word,    *)
(* "-" or "--".  Flag names keep their stream specifier; BaseOf strips it. *)
(* A machine is what the probes find, encoders and devices in order, and   *)
(* the worker's configuration file.  Paths keep only what the rewrite      *)
(* reads of them, the extension: the copy of an input a worker fetches and *)
(* the path it writes to are named like the file they stand for.           *)
(***************************************************************************)
EXTENDS EncoderTables, Sequences, FiniteSets, SequencesExt

CONSTANTS
    Machines,   \* the machines a worker may start on
    Commands,   \* the command lines a user may type
    APIArgs     \* jobs submitted to the server without the client

ASSUME MachinesAssumption ==
    \A m \in Machines : {m.encoders, m.manual, m.priority} \subseteq Seq(STRING)

VARIABLES
    caps,      \* the adapter's hwCaps, NoCaps before the worker registers
    typed,     \* the command line being served, <<>> when there is none
    job,       \* the job the client submitted for it, NoJob before
    outcome    \* what RewriteArgs returned for the job, Pending before

vars == <<caps, typed, job, outcome>>

-----------------------------------------------------------------------------
\* Tokens.

Flag(name) == [kind |-> "flag", name |-> name, value |-> None]
Inline(name, value) == [kind |-> "inline", name |-> name, value |-> value]
Word(name) == [kind |-> "word", name |-> name, value |-> None]
Stdout == [kind |-> "stdout", name |-> None, value |-> None]
Placeholder == Word("<INPUT_FILE>")
Separator == [kind |-> "separator", name |-> "-", value |-> None]

HasDash(tok) == tok.kind # "word"

BaseOf(name) ==
    CASE name \in {"b:v", "b:a"} -> "b"
      [] name = "q:v" -> "q"
      [] name = "crf:v" -> "crf"
      [] name \in {"c:v", "c:v:0", "c:a"} -> "c"
      [] OTHER -> name

BooleanFlags == {"y", "re", "an", "vn", "hide_banner"}
IsBoolean(tok) == tok.kind = "inline" \/ BaseOf(tok.name) \in BooleanFlags

\* The positions before "--", where the parsers stop.
BeforeSeparator(args) ==
    LET separators == {i \in DOMAIN args : args[i].kind = "separator"}
    IN  {i \in DOMAIN args : \A j \in separators : i < j}

Latest(S) == IF S = {} THEN 0 ELSE CHOOSE i \in S : \A j \in S : j <= i

\* A walk over args by arity: position i is the value of the flag before it
\* when that flag takes one and is not a value itself.
Values(args, Takes(_)) ==
    LET value[i \in 0 .. Len(args)] == i > 1 /\ ~value[i - 1] /\ Takes(i - 1)
    IN  {i \in DOMAIN args : value[i]}

-----------------------------------------------------------------------------
\* Encoder selections (videoencoder.go).

VideoEncoderFlagName == {"vcodec", "c:v", "codec:v", "c:v:0"}
GenericFlagName == {"c", "codec"}

knownVideoEncoder(name, hw) == CodecFormat(name) # None \/ name \in hw.available

ParseVideoEncoderFlags(args, hw) ==
    {i \in BeforeSeparator(args) :
        /\ args[i].kind = "flag"
        /\ args[i].name \in VideoEncoderFlagName \cup GenericFlagName
        /\ i < Len(args)
        /\ args[i + 1].kind = "word"
        /\ args[i].name \in GenericFlagName =>
               args[i + 1].name = "copy" \/ knownVideoEncoder(args[i + 1].name, hw)}

\* The position of the selection that counts, 0 when there is none.
PrimaryVideoEncoderFlag(args, hw) ==
    LET flags == ParseVideoEncoderFlags(args, hw)
        explicit == {i \in flags : args[i].name \notin GenericFlagName}
    IN  IF explicit # {} THEN Latest(explicit) ELSE Latest(flags)

parseEncoderFromArgs(args, hw) ==
    LET p == PrimaryVideoEncoderFlag(args, hw) IN IF p = 0 THEN None ELSE args[p + 1].name

RewrittenTokens(flag, enc) ==
    <<IF flag.name \in GenericFlagName THEN Flag("c:v") ELSE flag, Word(enc)>>

HasInlineVideoEncoderSyntax(args) ==
    \E i \in BeforeSeparator(args) :
        args[i].kind = "inline" /\ args[i].name \in VideoEncoderFlagName \cup GenericFlagName

ReplacePrimaryVideoEncoder(args, enc, hw) ==
    LET p == PrimaryVideoEncoderFlag(args, hw)
    IN  IF p = 0 \/ args[p + 1].name = "copy" THEN args
        ELSE SubSeq(args, 1, p - 1) \o RewrittenTokens(args[p], enc) \o SubSeq(args, p + 2, Len(args))

-----------------------------------------------------------------------------
\* The output (outputformat.go).

\* A positive -map whose streams are all audio selects no video.
AudioMaps == {"0:a"}

HasNoVideoOutput(args) ==
    LET maps == {i \in BeforeSeparator(args) :
                    args[i] = Flag("map") /\ i < Len(args) /\ args[i + 1].kind = "word"}
    IN  \/ \E i \in BeforeSeparator(args) : args[i] = Flag("vn")
        \/ maps # {} /\ \A i \in maps : args[i + 1].name \in AudioMaps

outputSectionStart(args) ==
    LET inputs == {i \in 1 .. Len(args) - 1 : args[i] = Flag("i")}
    IN  IF inputs = {} THEN Len(args) + 1 ELSE Latest(inputs) + 2

lastPositional(args, start) ==
    LET section == SubSeq(args, start, Len(args))
        Takes(i) == section[i].kind = "flag" /\ ~IsBoolean(section[i])
        files == {i \in DOMAIN section : section[i].kind \in {"word", "stdout"}} \ Values(section, Takes)
    IN  IF files = {} THEN Stdout ELSE section[Latest(files)]

\* MuxerForExtension and DefaultVideoCodec for the outputs of the model.
MuxerForExtension(file) ==
    CASE file = "out.mp4" -> "mp4" [] file = "out.webm" -> "webm" [] file = "out.avi" -> "avi" [] OTHER -> None
DefaultVideoCodec(muxer) ==
    CASE muxer = "mp4" -> "h264" [] muxer = "webm" -> "vp9" [] muxer = "avi" -> "mpeg4" [] OTHER -> None

OutputFormat(args) ==
    LET start == outputSectionStart(args)
        formats == {i \in start .. Len(args) - 1 : args[i] = Flag("f")}
    IN  IF formats # {} THEN args[Latest(formats) + 1].name
        ELSE MuxerForExtension(lastPositional(args, start).name)

-----------------------------------------------------------------------------
\* Capabilities (capabilities/detector.go, convertCapabilities).

\* isHardwareCodec goes by the suffix of the name, so it also knows the
\* hardware encoders the tables above have no row for.
HasSuffix(enc, suffix) ==
    CASE suffix = "_nvenc" -> IsNVENC(enc)
      [] suffix = "_qsv" -> IsQSV(enc) \/ enc = "mjpeg_qsv"
      [] suffix = "_vaapi" -> IsVAAPI(enc)
      [] suffix = "_amf" -> IsAMF(enc) \/ enc = "av1_amf"
      [] suffix = "_videotoolbox" -> IsVT(enc)

isHardwareCodec(enc) ==
    \E suffix \in {"_nvenc", "_qsv", "_vaapi", "_amf", "_videotoolbox"} : HasSuffix(enc, suffix)

hasCorrespondingGPUDevice(enc, devices) ==
    LET accessible == SelectSeq(devices, LAMBDA d : d.accessible)
        OfType(types) == \E i \in DOMAIN accessible : accessible[i].type \in types
        qsv == SelectSeq(accessible, LAMBDA d : d.type = "qsv")
    IN  CASE HasSuffix(enc, "_nvenc") -> OfType({"nvenc"})
          [] HasSuffix(enc, "_qsv") -> qsv # <<>> /\ qsv[1].healthy
          [] HasSuffix(enc, "_vaapi") -> OfType({"vaapi", "qsv"})
          [] HasSuffix(enc, "_amf") -> OfType({"amf", "vaapi"})
          [] HasSuffix(enc, "_videotoolbox") -> OfType({"videotoolbox"})

NoCaps == [order |-> <<>>, available |-> {}, hardware |-> {}, devices |-> <<>>,
           priority |-> <<>>, blacklist |-> {}]

\* The encoders in the order of the probe, and which of them are available.  A
\* manual list replaces what was detected, blacklist included, and its entries
\* are not marked as hardware.
DetectWithConfig(m) ==
    LET detected == {e \in Range(m.encoders) :
                        /\ isHardwareCodec(e) => hasCorrespondingGPUDevice(e, m.devices)
                        /\ e \notin m.blacklist}
        listed == m.manual # <<>>
    IN  [order |-> IF listed THEN m.manual ELSE m.encoders,
         available |-> IF listed THEN Range(m.manual) ELSE detected,
         hardware |-> IF listed THEN {} ELSE {e \in detected : isHardwareCodec(e)},
         devices |-> m.devices,
         priority |-> IF m.priority = <<>> THEN DefaultEncoderPriority ELSE m.priority,
         blacklist |-> m.blacklist]

HasEncoder(hw, enc) == enc \in hw.available
HasCodecSupport(hw, codec) == \E e \in hw.available : CodecFormat(e) = codec

\* The first entry of a list of encoders that belongs to a set.
FirstOf(seq, S) ==
    LET hits == {i \in DOMAIN seq : seq[i] \in S}
    IN  IF hits = {} THEN None ELSE seq[CHOOSE i \in hits : \A j \in hits : i <= j]

\* mutant: the priority list is taken for what the worker has
GetBestHardwareEncoderByPriority(hw, codec) ==
    FirstOf(hw.priority, {e \in Range(hw.priority) : CodecFormat(e) = codec /\ IsHardware(e)})

GetBestHardwareEncoder(hw, codec) ==
    LET preferred == FirstOf(hw.priority, {e \in hw.available : CodecFormat(e) = codec /\ IsHardware(e)})
    IN  IF preferred # None THEN preferred
        ELSE FirstOf(hw.order, {e \in hw.hardware : CodecFormat(e) = codec})

GetSoftwareEncoder(hw, codec) ==
    FirstOf(hw.order, {e \in hw.available \ hw.hardware : CodecFormat(e) = codec})

\* The first accessible device of the vendor, else the first accessible one.
\* An Intel device counts only with a healthy QSV runtime.
SelectDevice(hw, enc) ==
    LET accessible == SelectSeq(hw.devices, LAMBDA d : d.accessible)
        vendor == GPUVendor(enc)
        types == CASE vendor = "NVIDIA" -> {"nvenc"}
                   [] vendor = "Intel" -> {"qsv"}
                   [] vendor = "AMD" -> {"vaapi", "amf"}
                   [] OTHER -> {"videotoolbox"}
        matches(d) == /\ d.type \in types \/ d.vendor = vendor
                      /\ vendor = "Intel" => d.healthy
        matching == SelectSeq(accessible, matches)
    IN  IF matching # <<>> THEN matching[1].path
        ELSE IF accessible # <<>> THEN accessible[1].path ELSE None

-----------------------------------------------------------------------------
\* The scenario (classifier.go).

\* containerTargetCodec: the family native ffmpeg would pick, if this worker
\* has an encoder for it.
containerTargetCodec(args, hw) ==
    LET codec == DefaultVideoCodec(OutputFormat(args))
        software == SoftwareEncoderForCodec(codec)
    IN  IF \/ GetBestHardwareEncoder(hw, codec) # None
           \/ GetSoftwareEncoder(hw, codec) # None
           \/ software # None /\ HasEncoder(hw, software)
        THEN codec ELSE None

\* Where a specified encoder that cannot be used goes.
StandIn(hw, codec) ==
    CASE GetBestHardwareEncoder(hw, codec) # None -> "alternative"
      [] GetSoftwareEncoder(hw, codec) # None -> "fallback_software"
      [] OTHER -> "format_not_available"

Classify(hw, enc, codec, auto) ==
    LET own == CodecFormat(enc)
    IN  CASE enc = None ->
                 IF GetBestHardwareEncoder(hw, codec) # None THEN "unspecified_hw" ELSE "unspecified_sw"
          [] enc # None /\ enc \in hw.blacklist ->
                 IF own = None THEN "encoder_unsupported" ELSE StandIn(hw, own)
          [] enc # None /\ enc \notin hw.blacklist /\ HasEncoder(hw, enc) ->
                 IF auto /\ ~IsHardware(enc) /\ GetBestHardwareEncoder(hw, own) # None
                 THEN "alternative" ELSE "supported"
          [] OTHER ->
                 IF own = None THEN "encoder_unsupported"
                 ELSE IF ~HasCodecSupport(hw, own) THEN "format_not_available" ELSE StandIn(hw, own)

\* GetScenarioInfo.
IsError(scenario) == scenario \in {"encoder_unsupported", "format_not_available"}
RequiresTranslation(scenario) == scenario \in {"unspecified_hw", "alternative", "fallback_software"}
RequiresHWInjection(scenario) == scenario \in {"unspecified_hw", "alternative"}

softwareTarget(hw, codec) ==
    IF GetSoftwareEncoder(hw, codec) # None THEN GetSoftwareEncoder(hw, codec)
                                            ELSE SoftwareEncoderForCodec(codec)

SelectTargetEncoder(scenario, hw, enc, codec) ==
    CASE scenario = "unspecified_hw" -> GetBestHardwareEncoder(hw, codec)
      [] scenario = "unspecified_sw" -> softwareTarget(hw, codec)
      [] scenario = "supported" -> enc
      [] scenario = "alternative" -> GetBestHardwareEncoder(hw, CodecFormat(enc))
      [] scenario = "fallback_software" -> GetSoftwareEncoder(hw, CodecFormat(enc))

-----------------------------------------------------------------------------
\* Parameters (parseEncoderParamsFromArgs, translator.go, injector.go).

SkipFlags == {"i", "f", "c", "c:v", "c:a", "codec", "codec:v", "vcodec", "map", "vf", "ss", "t"}

\* The options that are neither encoder selections nor skipped, by name, the
\* last occurrence counting; values are tokens, for "-ss -5" is legal.
parseEncoderParams(args, hw) ==
    LET flags == ParseVideoEncoderFlags(args, hw)
        selections == flags \cup {i + 1 : i \in flags}
        Takes(i) == /\ i \notin selections
                    /\ args[i].kind \in {"flag", "stdout"}
                    /\ args[i].name \in SkipFlags \/ ~IsBoolean(args[i])
        params == {i \in (BeforeSeparator(args) \ selections) \ Values(args, Takes) :
                      /\ args[i].kind \in {"flag", "stdout", "inline"}
                      /\ args[i].name \notin SkipFlags
                      /\ args[i].kind # "inline" => ~IsBoolean(args[i]) /\ i < Len(args)}
    IN  [n \in {args[i].name : i \in params} |->
            LET i == Latest({j \in params : args[j].name = n})
            IN  IF args[i].kind = "inline" THEN Word(args[i].value) ELSE args[i + 1]]

\* The parameter names of the model in the order sort.Strings gives them.
NameOrder == <<"", "allow_sw", "async_depth", "b:a", "b:v", "cpu-used", "cq", "crf", "crf:v", "delay", "g",
               "global_quality", "gpu", "hwaccel", "init_hw_device", "pix_fmt", "preset", "q:v", "qp_i",
               "qsv_device", "quality", "rc", "speed", "tune", "usage", "vaapi_device", "zerolatency">>

Sorted(names) == SelectSeq(NameOrder, LAMBDA n : n \in names)

\* The original of an option that got another name is removed; a failed
\* record may name a target too, and its option must stay.
RenamedByAnyRecord(fate, n) == fate.name \notin {n, None}
Renamed(fate, n) == fate.status = "success" /\ fate.name # n

\* Translate: [params, filter, converted], where filter names the options
\* that got another name and converted the ones that got another value.  An
\* option a rule could not convert, or that no rule mentions, is kept; one
\* declared unsupported is left out of the translated set.
Translated(enc, params, fate) ==
    LET names == Sorted(DOMAIN params)
        key(n) == IF fate[n].status = "success" THEN fate[n].name ELSE n
        kept == {n \in DOMAIN params : fate[n].status # "unsupported"}
        latest(k) == names[Latest({i \in DOMAIN names : names[i] \in kept /\ key(names[i]) = k})]
        translated == [k \in {key(n) : n \in kept} |->
                          IF fate[latest(k)].status = "success" THEN Word(fate[latest(k)].value)
                                                                ELSE params[latest(k)]]
        extra == HardwareParams(enc)
        added == IF extra.name = None \/ extra.conflicts \cap DOMAIN translated # {} THEN <<>>
                 ELSE extra.name :> Word(extra.value)
    IN  [params |-> translated @@ added,
         filter |-> {n \in DOMAIN params : Renamed(fate[n], n)},
         converted |-> [n \in {m \in DOMAIN params : fate[m].status = "success" /\ fate[m].name = m
                                                       /\ fate[m].converted} |-> fate[n].value]]

Translate(enc, params) ==
    Translated(enc, params,
               [n \in DOMAIN params |->
                   IF params[n].kind = "word" THEN translateSingleParam(enc, n, params[n].name)
                                              ELSE Fate("unknown", None, None, FALSE)])

Untranslated(params) == [params |-> params, filter |-> {}, converted |-> <<>>]

\* Inject: only names the parameters do not have yet.
Inject(hw, enc, params) ==
    LET injected == InjectedParams(enc, SelectDevice(hw, enc))
    IN  params @@ [n \in DOMAIN injected |-> Word(injected[n])]

-----------------------------------------------------------------------------
\* The rewritten arguments (engine.go).

GlobalInitParamNames == <<"init_hw_device", "hwaccel">>

hasGlobalParam(args, name) ==
    \E i \in DOMAIN args :
        /\ HasDash(args[i]) /\ args[i].name = name
        /\ args[i].kind = "inline" \/ i < Len(args)

\* The last argument that is neither a value nor a flag with one, 0 when there
\* is none: "--" is taken for a flag with a value, and a boolean flag at the end
\* for the output.
findOutputFilePos(args) ==
    LET Takes(i) == HasDash(args[i]) /\ args[i].kind # "stdout" /\ ~IsBoolean(args[i])
        values == Values(args, Takes)
    IN  Latest({i \in DOMAIN args : ~Takes(i)} \ values)

insertAtEnd(args, tokens) == args \o tokens
insertBeforeOutputPath(args, tokens) ==
    LET pos == findOutputFilePos(args)
    IN  IF pos = 0 THEN args \o tokens
        ELSE SubSeq(args, 1, pos - 1) \o tokens \o SubSeq(args, pos, Len(args))

\* The options of a map whose names are in the set, as arguments.
AsArgs(params, names) ==
    LET order == Sorted(names) IN FlattenSeq([i \in DOMAIN order |-> <<Flag(order[i]), params[order[i]]>>])

\* The names a flag is looked up by: in full, then without its specifier.
Spellings(tok) == {tok.name, BaseOf(tok.name)}
LookUp(table, tok) == IF tok.name \in DOMAIN table THEN table[tok.name] ELSE table[BaseOf(tok.name)]

\* An inline form carries its own value: the next argument is not its.
OwnsNextAlways(tok) == TRUE
OwnsNext(tok) == tok.kind # "inline"

\* One pass over the arguments: what is emitted, and the names it has seen.
Emit(args, enc, hw, t) ==
    LET flags == ParseVideoEncoderFlags(args, hw)
        primary == PrimaryVideoEncoderFlag(args, hw)
        options == {i \in BeforeSeparator(args) \ flags : HasDash(args[i])}
        filtered == {i \in options : Spellings(args[i]) \cap t.filter # {}}
        inPlace == {i \in options \ filtered : /\ args[i].kind # "inline" /\ i < Len(args)
                                               /\ Spellings(args[i]) \cap DOMAIN t.converted # {}}
        Skips(i) == i \in flags \cup inPlace \/ (i \in filtered /\ OwnsNext(args[i]))
        handled == DOMAIN args \ Values(args, Skips)
        known == t.filter \cup DOMAIN t.converted \cup DOMAIN t.params
        emitted(i) ==
            CASE i \notin handled -> <<>>
              [] i \in handled \cap flags ->
                     IF i = primary /\ args[i + 1].name \notin {enc, "copy"}
                     THEN RewrittenTokens(args[i], enc) ELSE <<args[i], args[i + 1]>>
              [] i \in handled \cap filtered -> <<>>
              [] i \in handled \cap inPlace -> <<args[i], Word(LookUp(t.converted, args[i]))>>
              [] OTHER -> <<args[i]>>
    IN  [args |-> FlattenSeq([i \in DOMAIN args |-> emitted(i)]),
         seen |-> UNION {Spellings(args[i]) : i \in
                            {j \in handled \cap options : Spellings(args[j]) \cap known # {}}}]

buildRewrittenArgs(args, enc, hw, t) ==
    LET globals == Range(GlobalInitParamNames)
        prepended == {n \in globals \cap DOMAIN t.params : ~hasGlobalParam(args, n)}
        pass == Emit(args, enc, hw, t)
        body == AsArgs(t.params, prepended) \o pass.args
        selection == IF PrimaryVideoEncoderFlag(args, hw) = 0 THEN <<Flag("c:v"), Word(enc)>> ELSE <<>>
        rest == DOMAIN t.params \ (globals \cup VideoEncoderFlagName \cup GenericFlagName \cup pass.seen)
    IN  insertBeforeOutputPath(insertBeforeOutputPath(body, selection), AsArgs(t.params, rest))

Response(args, error, target, scenario) ==
    [args |-> args, error |-> error, target |-> target, scenario |-> scenario, fallback |-> FALSE]

\* Translation between encoders that are not registered fails, and leaves
\* the parameters alone.
TranslateFor(scenario, target, params) ==
    IF RequiresTranslation(scenario) /\ Registered(target) THEN Translate(target, params)
                                                          ELSE Untranslated(params)

InjectFor(scenario, target, t, hw) ==
    IF RequiresHWInjection(scenario) THEN [t EXCEPT !.params = Inject(hw, target, @)] ELSE t

Untouched(args) == Response(args, None, None, "untouched")

\* An encoder nobody asked for is not forced on a worker that lacks it.
ForTarget(args, hw, enc, scenario, target) ==
    IF enc = None /\ ~HasEncoder(hw, target) THEN Untouched(args)
    ELSE IF target = None THEN Response(args, "no_suitable_encoder", None, scenario)
    ELSE LET params == parseEncoderParams(args, hw)
             t == InjectFor(scenario, target, TranslateFor(scenario, target, params), hw)
         IN  Response(buildRewrittenArgs(args, target, hw, t), None, target, scenario)

ForScenario(args, hw, enc, codec, scenario) ==
    IF IsError(scenario) THEN Response(args, scenario, None, scenario)
    ELSE ForTarget(args, hw, enc, scenario, SelectTargetEncoder(scenario, hw, enc, codec))

ForEncoder(args, hw, auto, enc, codec) ==
    IF enc = None /\ codec = None THEN Untouched(args)
    ELSE ForScenario(args, hw, enc, codec, Classify(hw, enc, codec, auto))

\* EngineCoordinator.Rewrite.
EngineRewrite(args, hw, auto) ==
    ForEncoder(args, hw, auto, parseEncoderFromArgs(args, hw), containerTargetCodec(args, hw))

\* fallbackToSoftware: with a known encoder of a family this worker cannot
\* encode at all, the family's baseline encoder is named all the same.
fallbackToSoftware(args, hw) ==
    LET codec == CodecFormat(parseEncoderFromArgs(args, hw))
    IN  ReplacePrimaryVideoEncoder(args, softwareTarget(hw, codec), hw)

OrSoftware(args, hw, response) ==
    IF response.error \notin {None, "encoder_unsupported"}
    THEN [Response(fallbackToSoftware(args, hw), None, None, response.scenario) EXCEPT !.fallback = TRUE]
    ELSE response

\* RewriteAdapter.RewriteArgs with the default configuration.
RewriteResultWithoutFallback(args, hw, auto) == EngineRewrite(args, hw, auto)
RewriteResult(args, hw, auto) ==
    IF \/ HasNoVideoOutput(args) \/ HasInlineVideoEncoderSyntax(args)
       \/ parseEncoderFromArgs(args, hw) = "copy"
    THEN Untouched(args)
    ELSE OrSoftware(args, hw, EngineRewrite(args, hw, auto))

\* ResolveTargetEncoder: the encoder the cache key names.
ResolveTargetEncoder(args, hw, auto) == RewriteResult(args, hw, auto).target

-----------------------------------------------------------------------------
\* From the command line to the worker (parser.go, executor.go).

TakesValue(tok) == HasDash(tok) /\ tok.kind # "stdout" /\ ~IsBoolean(tok)

\* The positions that are no flag's value.
Free(args) == LET Takes(i) == TakesValue(args[i]) IN DOMAIN args \ Values(args, Takes)

IsFile(tok) == tok.kind \in {"word", "stdout"}
InputFlags == {Flag("i"), Flag("-input")}

Refused == [kind |-> "refused"]

\* Parser.Parse: the options without the output and with a placeholder for
\* every input, the inputs and the output by themselves, or a refusal.
Parse(args) ==
    LET free == Free(args)
        named == {i + 1 : i \in {j \in free : args[j] = Flag("o")}}
        sources == {i + 1 : i \in {j \in free : args[j] \in InputFlags}}
        outputs == {i \in free : IsFile(args[i])} \cup named
        dropped == outputs \cup {i - 1 : i \in named}
        At(keep(_)) == SelectSeq([i \in DOMAIN args |-> i], keep)
        kept == At(LAMBDA i : i \notin dropped)
        files == At(LAMBDA i : i \in sources)
        spelled(i) == IF i \in sources THEN Placeholder
                      ELSE IF i + 1 \in sources THEN Flag("i") ELSE args[i]
        output == args[CHOOSE i \in outputs : TRUE]
        valueMissing == Len(args) \in free /\ TakesValue(args[Len(args)])
    IN  IF valueMissing \/ sources = {} \/ Cardinality(outputs) # 1
        THEN Refused
        ELSE [kind |-> "job", args |-> [k \in DOMAIN kept |-> spelled(kept[k])],
              inputs |-> [k \in DOMAIN files |-> args[files[k]]],
              output |-> IF output = Word("pipe:1") THEN Stdout ELSE output]

\* A bare word is an output only behind an input.
hasOutputArg(args) ==
    \E i, j \in Free(args) : /\ j < i
                             /\ args[j] \in InputFlags \/ args[j].kind = "word"
                             /\ IsFile(args[i])

\* Mutant: every placeholder gets the first path.
SubstituteFirst(args, inputs) == [i \in DOMAIN args |-> IF args[i] = Placeholder THEN inputs[1] ELSE args[i]]

\* The placeholders take the job's inputs in order; the ones left over stay.
Substitute(args, inputs) ==
    LET number(i) == Cardinality({j \in 1 .. i : args[j] = Placeholder})
    IN  [i \in DOMAIN args |->
            IF args[i] = Placeholder /\ number(i) <= Len(inputs) THEN inputs[number(i)] ELSE args[i]]

\* The output path goes behind a trailing "--", and to the end of arguments
\* that name no output.
WithOutput(args, output) ==
    LET separators == {i \in DOMAIN args : args[i].kind = "separator"}
        missing == IF separators # {} THEN Len(args) = CHOOSE i \in separators : \A j \in separators : i <= j
                                      ELSE ~hasOutputArg(args)
    IN  IF missing THEN Append(args, output) ELSE args

BuildArgs(args, inputs, output) == WithOutput(Substitute(args, inputs), output)

-----------------------------------------------------------------------------
\* The specification.

NoJob == [kind |-> "none"]
Pending == [kind |-> "pending"]

Init ==
    /\ caps = NoCaps
    /\ typed = <<>>
    /\ job = NoJob
    /\ outcome = Pending

\* The worker starts on machine m, detects its capabilities, registers and
\* hands them to the adapter.  Registering again keeps them.
Register(m) ==
    /\ caps = NoCaps
    /\ caps' = DetectWithConfig(m)
    /\ UNCHANGED <<typed, job, outcome>>

Dispatched(parsed, auto) ==
    IF parsed = Refused THEN parsed
    ELSE [kind |-> "job", args |-> parsed.args, inputs |-> parsed.inputs,
          output |-> parsed.output, auto |-> auto,
          key |-> ResolveTargetEncoder(parsed.args, caps, auto)]

\* The client parses a command line; if it does not refuse it, the job
\* reaches this worker, which first computes its cache key.
Submit(cmd, auto) ==
    /\ caps # NoCaps /\ job = NoJob
    /\ typed' = cmd
    /\ job' = Dispatched(Parse(cmd), auto)
    /\ UNCHANGED <<caps, outcome>>

\* A job submitted over HTTP, its arguments as they are.
SubmitAPI(a, auto) ==
    /\ caps # NoCaps /\ job = NoJob
    /\ typed' = a.args
    /\ job' = Dispatched([kind |-> "job", args |-> a.args, inputs |-> a.inputs, output |-> a.output], auto)
    /\ UNCHANGED <<caps, outcome>>

\* The worker builds the arguments and rewrites them.
RewriteArgs ==
    /\ job.kind = "job" /\ outcome = Pending
    /\ outcome' = RewriteResult(BuildArgs(job.args, job.inputs, job.output), caps, job.auto)
    /\ UNCHANGED <<caps, typed, job>>

Finish ==
    /\ job = Refused \/ outcome # Pending
    /\ typed' = <<>> /\ job' = NoJob /\ outcome' = Pending
    /\ UNCHANGED caps

Next ==
    \/ \E m \in Machines : Register(m)
    \/ \E cmd \in Commands, auto \in BOOLEAN : Submit(cmd, auto)
    \/ \E a \in APIArgs, auto \in BOOLEAN : SubmitAPI(a, auto)
    \/ RewriteArgs
    \/ Finish

Spec == Init /\ [][Next]_vars

-----------------------------------------------------------------------------
\* How ffmpeg reads its arguments: options by arity, and "--" makes the token
\* behind it a file.

NativeFree(args) ==
    LET Takes(i) == TakesValue(args[i]) /\ args[i].kind # "separator" IN DOMAIN args \ Values(args, Takes)

\* The files: the bare tokens, and whatever follows "--".
NativeFiles(args) ==
    LET free == NativeFree(args)
    IN  {i \in free : IsFile(args[i]) \/ (i - 1 \in free /\ args[i - 1].kind = "separator")}

NativeOptions(args) ==
    LET files == NativeFiles(args)
    IN  {i \in NativeFree(args) : i \notin files /\ args[i].kind # "separator"}

TokensAt(args, positions) ==
    LET at == SelectSeq([i \in DOMAIN args |-> i], LAMBDA i : i \in positions)
    IN  [k \in DOMAIN at |-> args[at[k]]]

InputPlaces(args) == {i + 1 : i \in {j \in NativeOptions(args) : args[j] \in InputFlags}}
NativeInputs(args) == TokensAt(args, InputPlaces(args))

\* "-" is short for "pipe:1".
NativeOutputs(args) ==
    LET files == TokensAt(args, NativeFiles(args))
    IN  [k \in DOMAIN files |-> IF files[k] = Word("pipe:1") THEN Stdout ELSE files[k]]

\* The options that apply to the output: behind the last input and before
\* the output file.
OutputOptions(args) ==
    LET options == NativeOptions(args)
        files == NativeFiles(args)
        inputs == {i \in options : args[i] \in InputFlags}
    IN  {i \in options : (\A j \in inputs : j < i) /\ \E j \in files : i < j}

\* The encoder of the first video stream: the last selection that applies.
Selections(args) == {i \in OutputOptions(args) : args[i].name \in VideoEncoderFlagName \cup GenericFlagName}
EffectiveEncoder(args) ==
    IF Selections(args) = {} THEN None ELSE args[Latest(Selections(args)) + 1].name

\* The other options of the output, as name and value.
Settings(args) ==
    {[name |-> args[i].name,
      value |-> CASE args[i].kind = "inline" -> Word(args[i].value)
                  [] TakesValue(args[i]) -> args[i + 1]
                  [] OTHER -> Word(None)] :
        i \in (OutputOptions(args) \ Selections(args)) \ {j \in DOMAIN args : args[j] = Flag("o")}}

-----------------------------------------------------------------------------
\* The properties.

\* The command the user meant: the job's inputs are read where -i leaves a
\* place for them, and rffmpeg adds the output when -o or the job's
\* output_filename names it.
Meant ==
    LET places == {i \in InputPlaces(typed) : typed[i] = Placeholder}
        rank(i) == Cardinality({j \in places : j <= i})
        filled == [i \in DOMAIN typed |-> IF i \in places /\ rank(i) <= Len(job.inputs)
                                           THEN job.inputs[rank(i)] ELSE typed[i]]
    IN  IF NativeFiles(typed) = {} THEN Append(filled, job.output) ELSE filled

HasSeparator(args) == \E i \in DOMAIN args : args[i].kind = "separator"

\* A flag without a value behind the last file, as only API arguments have it.
FlagBehindOutput(args) ==
    LET files == NativeFiles(args)
    IN  files # {} /\ \E i \in NativeOptions(args) : IsBoolean(args[i]) /\ i > Latest(files)

\* The worker's capabilities are those of its machine, and a rewrite fails
\* only for an encoder nobody knows, never for want of a target: a family this
\* worker cannot encode falls back to software (FallbackToSoftware).
TypeOK ==
    /\ caps = NoCaps \/ \E m \in Machines : caps = DetectWithConfig(m)
    /\ typed \in Commands \cup {a.args : a \in APIArgs} \cup {<<>>}
    /\ job.kind \in {"none", "refused", "job"}
    /\ outcome = Pending \/ outcome.error \in {None, "encoder_unsupported"}

Rewritten == outcome # Pending /\ outcome.error = None

\* Whatever is parsed, inserted, renamed or dropped on the way, ffmpeg reads
\* the inputs the user named, each where its placeholder stood and in order,
\* and writes the output the user named and no other file: no option's value is
\* taken for a file, and no file for a value (Parse, findOutputCandidate,
\* BuildArgs, buildRewrittenArgs).  And the
\* client refuses no command in which ffmpeg reads an input and one output.
FilesKept ==
    /\ Rewritten =>
           /\ NativeInputs(outcome.args) = NativeInputs(Meant)
           /\ NativeOutputs(outcome.args) = NativeOutputs(Meant)
    /\ job = Refused =>
           \/ NativeInputs(typed) = <<>>
           \/ Len(NativeOutputs(typed)) + Cardinality({i \in NativeOptions(typed) : typed[i] = Flag("o")}) # 1
           \/ TakesValue(typed[Len(typed)])
           \/ HasSeparator(typed)

\* When the rewrite settles on a target encoder, this worker has it, and it
\* encodes what was asked for: the codec of the encoder the arguments select,
\* as CodecFormat classifies it, or without one the codec native ffmpeg picks
\* for the container.  It is blacklisted only where a manual list names it all
\* the same (DetectWithConfig, Classify, SelectTargetEncoder).
TargetFits ==
    Rewritten /\ outcome.target # None =>
        LET args == BuildArgs(job.args, job.inputs, job.output)
            enc == parseEncoderFromArgs(args, caps)
        IN  /\ HasEncoder(caps, outcome.target)
            /\ IF enc = None
               THEN CodecFormat(outcome.target) = DefaultVideoCodec(OutputFormat(args))
               ELSE CodecFormat(outcome.target) = CodecFormat(enc)
            /\ \E m \in Machines : /\ caps = DetectWithConfig(m)
                                  /\ m.manual = <<>> => outcome.target \notin m.blacklist

\* And it is the encoder ffmpeg uses for the output (insertBeforeOutputPath,
\* RewrittenTokens).  Two things API arguments can have cost it: behind a "--"
\* the options the rewrite inserts are lost, and with a boolean flag behind the
\* output so is an encoder the arguments did not name themselves.
TargetRuns ==
    Rewritten /\ outcome.target # None =>
        \/ HasSeparator(typed)
        \/ FlagBehindOutput(typed) /\ EffectiveEncoder(Meant) = None
        \/ EffectiveEncoder(outcome.args) = outcome.target

\* The setting s of the user survives as r: verbatim, or under the name and
\* value the target encoder has for it.
SurvivesAs(s, r) ==
    \/ r = s
    \/ /\ outcome.target # None /\ s.value.kind = "word"
       /\ \E name \in {s.name, BaseOf(s.name)} :
              LET fate == translateSingleParam(outcome.target, name, s.value.name)
              IN  fate.status = "success" /\ r.name \in {fate.name, s.name} /\ r.value = Word(fate.value)

\* The names by which a setting of the user can win over another one's.
Claims(s) ==
    {s.name, BaseOf(s.name)} \cup
    (IF outcome.target # None /\ s.value.kind = "word"
     THEN {translateSingleParam(outcome.target, s.name, s.value.name).name} \ {None} ELSE {})

\* Every output setting the user wrote reaches ffmpeg, verbatim or
\* translated, unless another setting the user wrote claims the same name;
\* every other setting ffmpeg gets is one the target needs, under a name the
\* user did not use (buildRewrittenArgs, Translate, Inject).  The exceptions
\* are those of TargetRuns.
ParamsKept ==
    Rewritten /\ ~HasSeparator(typed) /\ ~FlagBehindOutput(typed) =>
        LET mine == Settings(Meant)
            theirs == Settings(outcome.args)
            extra == HardwareParams(outcome.target)
            needs == InjectedParams(outcome.target, SelectDevice(caps, outcome.target))
            injected == [n \in DOMAIN needs \cup ({extra.name} \ {None}) |->
                            {IF n = extra.name THEN extra.value ELSE needs[n]}
                            \cup (IF n \in DOMAIN needs THEN {needs[n]} ELSE {})]
        IN  /\ \A s \in mine :
                   \/ \E r \in theirs : SurvivesAs(s, r)
                   \/ \E o \in mine \ {s} : Claims(o) \cap Claims(s) # {}
            /\ \A r \in theirs :
                   \/ \E s \in mine : SurvivesAs(s, r)
                   \/ /\ r.name \in DOMAIN injected /\ r.value \in {Word(v) : v \in injected[r.name]}
                      /\ \A s \in mine : s.name # r.name

\* What findOutputFilePos says it returns: "the index of the output file within
\* args: the last positional (no leading '-') argument that is NOT the value of
\* a preceding value-taking flag".
OutputPosIsOutput ==
    Rewritten /\ outcome.target # None /\ ~HasSeparator(typed) =>
        findOutputFilePos(outcome.args) \in NativeFiles(outcome.args)

\* An encoder the user names is never replaced by an encoder of another codec.
FamilyKept ==
    Rewritten /\ outcome.target # None /\ EffectiveEncoder(Meant) # None =>
        \/ outcome.target = EffectiveEncoder(Meant)
        \/ CodecFormat(outcome.target) = CodecFormat(EffectiveEncoder(Meant)) /\ CodecFormat(outcome.target) # None

\* The encoder the cache key names is the one the rewrite selects.
KeyNamesEncoder == Rewritten => job.key = outcome.target
=============================================================================
