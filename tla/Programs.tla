------------------------------- MODULE Programs -------------------------------
(***************************************************************************)
(* The programs that run from a beginning to an end: the child of the echo  *)
(* server of week 40 (EchoConnection) with any client or with its own       *)
(* (EchoClient), the text programs of weeks 23 to 31                        *)
(* (LinePrograms), a reload of the configuration of week 44 (ConfigReload), *)
(* the record parsers of week 56 (RecordParser), the functions on words     *)
(* (Words), arrays (Algorithms) and inputs (Inputs).  They share nothing: a *)
(* behaviour is one of the part that which names.                           *)
(***************************************************************************)
EXTENDS EchoClient

CONSTANTS
    LineMax, Capacity, Limits, MaxLines,
    IntWidth, LongWidth, ReadMax, Blocks, NULL,
    LINE_MAX_LEN, NameSize, MaxLength,
    ByteWidth, Q16_SHIFT, NAME_BYTES, LIMIT, ArrayLength,
    RecordSize, TextLength, Low, High

\* calloc's failure is told from its success.
ASSUME NullAssumption == NULL \notin Blocks

\* The sizes of buffers; a long is as wide as an int, at least.
ASSUME SizeAssumption == LINE_MAX_LEN \in Nat /\ NameSize \in Nat
ASSUME TextAssumption ==
    LineMax \in Nat /\ Capacity \in Nat \ {0} /\ Limits \subseteq Nat /\ MaxLines \in Nat
ASSUME WidthAssumption ==
    /\ 2 ^ (IntWidth - 1) \in Nat \ {0}
    /\ 2 ^ IntWidth = 2 * 2 ^ (IntWidth - 1)
    /\ 2 ^ (LongWidth - 1) \in Nat /\ 2 ^ (IntWidth - 1) <= 2 ^ (LongWidth - 1)

VARIABLES
    which,
    tprogram, tstdin, tfile, toperands, ttoFile, tmaximum, tpc, tk, tpos, tstdinPos,
    tout, tcount, trejected, topen, tstatus, tlines_out, tfailed,
    cpc, clines, ctext, copened, cbuf, cfresh, cconfig, cheap, cbefore, cresult,
    pline, plegacy, pmodern, pcalled,
    warg, wresult, aarg, aresult, iarg, iresult

textVars == <<tprogram, tstdin, tfile, toperands, ttoFile, tmaximum, tpc, tk, tpos,
              tstdinPos, tout, tcount, trejected, topen, tstatus, tlines_out, tfailed>>
configVars == <<cpc, clines, ctext, copened, cbuf, cfresh, cconfig, cheap, cbefore, cresult>>
parserVars == <<pline, plegacy, pmodern, pcalled>>
functionVars == <<warg, wresult, aarg, aresult, iarg, iresult>>
allVars == <<which, vars, clientProgram, textVars, configVars, parserVars, functionVars>>

Text == INSTANCE LinePrograms WITH
    program <- tprogram, stdin <- tstdin, file <- tfile, operands <- toperands,
    toFile <- ttoFile, maximum <- tmaximum, pc <- tpc, k <- tk, pos <- tpos,
    stdinPos <- tstdinPos, out <- tout, count <- tcount, rejected <- trejected,
    open <- topen, status <- tstatus, lines_out <- tlines_out, failed <- tfailed
Config == INSTANCE ConfigReload WITH
    pc <- cpc, lines <- clines, text <- ctext, opened <- copened, buf <- cbuf,
    fresh <- cfresh, global_config <- cconfig, heap <- cheap, before <- cbefore,
    result <- cresult
Parser == INSTANCE RecordParser WITH
    line <- pline, legacy <- plegacy, modern <- pmodern, called <- pcalled
Word == INSTANCE Words WITH arg <- warg, result <- wresult
Algorithm == INSTANCE Algorithms WITH arg <- aarg, result <- aresult, MaxLength <- ArrayLength
Input == INSTANCE Inputs WITH arg <- iarg, result <- iresult

InitAll ==
    /\ which \in {"conversation", "client", "text", "config", "parser", "words", "algorithms", "inputs"}
    /\ ClientInit /\ Config!Init
    /\ IF which = "text" THEN Text!Init
       ELSE /\ tprogram = "scale" /\ tstdin = <<>> /\ tfile = <<>> /\ toperands = <<"-">>
            /\ Text!Init
    /\ IF which = "parser" THEN Parser!Init ELSE pline = <<>> /\ Parser!Init
    /\ IF which = "words" THEN Word!Init ELSE warg = [f |-> "none"] /\ wresult = <<>>
    /\ IF which = "algorithms" THEN Algorithm!Init ELSE aarg = [f |-> "none"] /\ aresult = <<>>
    /\ IF which = "inputs" THEN Input!Init ELSE iarg = [f |-> "none"] /\ iresult = <<>>

InConversation(A) ==
    /\ which = "conversation" /\ A
    /\ UNCHANGED <<which, clientProgram, textVars, configVars, parserVars, functionVars>>
WithClient(A) ==
    which = "client" /\ A /\ UNCHANGED <<which, textVars, configVars, parserVars, functionVars>>

NextAll ==
    \/ InConversation(Next) \/ WithClient(ClientNext)
    \/ /\ which = "text" /\ Text!Next
       /\ UNCHANGED <<which, vars, clientProgram, configVars, parserVars, functionVars>>
    \/ /\ which = "config" /\ Config!Next
       /\ UNCHANGED <<which, vars, clientProgram, textVars, parserVars, functionVars>>
    \/ /\ which = "parser" /\ Parser!Next
       /\ UNCHANGED <<which, vars, clientProgram, textVars, configVars, functionVars>>
    \/ /\ which = "words" /\ Word!Next
       /\ UNCHANGED <<which, vars, clientProgram, textVars, configVars, parserVars, aarg, aresult, iarg, iresult>>
    \/ /\ which = "algorithms" /\ Algorithm!Next
       /\ UNCHANGED <<which, vars, clientProgram, textVars, configVars, parserVars, warg, wresult, iarg, iresult>>
    \/ /\ which = "inputs" /\ Input!Next
       /\ UNCHANGED <<which, vars, clientProgram, textVars, configVars, parserVars, warg, wresult, aarg, aresult>>

\* The fairness of EchoConnection, for the conversation; the client is scheduled
\* too, its time passes, its stdin ends, and its kernel resets what it has closed.
SpecAll ==
    /\ InitAll /\ [][NextAll]_allVars
    /\ WF_allVars(InConversation(Child)) /\ WF_allVars(InConversation(ClientRead))
    /\ WF_allVars(WithClient(Child /\ UNCHANGED clientProgram)) /\ WF_allVars(WithClient(Main \/ Refused))

-----------------------------------------------------------------------------
\* echoserver.c: the child of a client that reads ends; see ChildEnds in
\* EchoConnection.  echoclient.c: with it both ends do, and they do not wait for
\* each other before; see NeverBothWait in EchoClient.
ConversationEnds ==
    /\ which \in {"conversation", "client"} => ChildEnds
    /\ which = "client" => <>(at = "closed") /\ []NeverBothWait

\* variant2.c, files.c, errors.c, filter.c: the output has the lines it should;
\* see OutputIsRight in LinePrograms.
OutputIsRight == Text!OutputIsRight

\* errors.c and the others: a run gives back what it took; see NothingHeld in
\* LinePrograms.
NothingHeld == Text!NothingHeld

\* config.c: a reload installs all of the new configuration or keeps the old one;
\* see ReloadIsAtomic in ConfigReload.
ReloadIsAtomic == Config!ReloadIsAtomic

\* legacy.c, parser.c: the rewritten parser answers as the old one did; see
\* RewriteAgrees in RecordParser.
RewriteAgrees == Parser!RewriteAgrees

\* bits.c, ub.c, portable.c, constrained.c: the functions on words compute what
\* they should; see WordsAreRight in Words.
WordsAreRight == Word!WordsAreRight

\* loops.c, strings.c, params.c, recur.c and others: so do the functions on
\* numbers and arrays, and prompt.c, params.c and files.c take what they are
\* given as they should; see AlgorithmsAreRight in Algorithms and InputsAreTaken
\* in Inputs.
AlgorithmsAreRight == Algorithm!AlgorithmsAreRight /\ Input!InputsAreTaken
=============================================================================
