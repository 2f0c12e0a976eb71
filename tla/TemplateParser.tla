---------------------------- MODULE TemplateParser ----------------------------
(***************************************************************************)
(* The parser of page templates (template_parser.c), which turns texts and *)
(* the tags between them into Lua, one chunk each time that Lua asks for   *)
(* more: it finds the next chunk and hands out the one before, as a tag    *)
(* also says whether the white space around it is dropped.  When Lua       *)
(* rejects a chunk, the place in the template is worked out from the line  *)
(* Lua names.  Texts and tags are chosen when they are come upon.          *)
(***************************************************************************)
EXTENDS Naturals

CONSTANTS MaxLines, \* bound: line ends in a part of a text, or in a tag
          MaxTags   \* bound: tags of a template

ASSUME LinesAssumption == MaxLines \in Nat

VARIABLES
  parser,   \* the fields of struct template_parser
  handed,   \* the text handed out, and where its white space was dropped
  produced, \* line ends in what Lua was given
  passed,   \* history: line ends in the template up to parser->off
  tags,     \* history: number of tags found
  earlier,  \* history: the chunk before the one handed out
  blamed    \* the line of an error, the true one and the one told

parserVars == <<parser, handed, produced, passed, tags, earlier, blamed>>

\* A text, with line ends in the white space it begins with, and behind that.
Texts == [type : {"text"}, lead : 0..MaxLines, rest : 0..MaxLines]
\* Tags differ in what becomes of their line ends: those of code and expressions
\* are passed on.  A dash may come after "<%" and before "%>".
Tags == [type : {"code", "expr", "print", "comment"}, lines : 0..MaxLines,
         before : BOOLEAN, after : BOOLEAN]

Nothing == [type |-> "none"]
EndOfFile == [type |-> "eof"]
\* "line" is the parser's, "at" are the line ends before it in the template.
Chunk(what, line, at, front) == [what |-> what, line |-> line, at |-> at, front |-> front]

\* template_open(), template_string()
ParserInit ==
  /\ parser = [in_expr |-> FALSE, line |-> 0, strip_before |-> FALSE, strip_after |-> FALSE,
               cur |-> Chunk(Nothing, 0, 0, FALSE), prv |-> Chunk(Nothing, 0, 0, FALSE)]
  /\ handed = Nothing /\ earlier = Nothing
  /\ produced = 0 /\ passed = 0 /\ tags = 0
  /\ blamed = <<>>

-----------------------------------------------------------------------------
(* template_format_chunk(), for what was the current chunk *)

LineEnds(what) == IF what.type \in {"code", "expr"} THEN what.lines ELSE 0
CodeOnly(what) == IF what.type = "code" THEN what.lines ELSE 0 \* mutant
Counted(what) == LineEnds(what)

\* "p" is the parser with the next chunk found.
FormatChunk(p) ==
  LET prv == parser.cur IN
  /\ parser' = [p EXCEPT !.prv = prv, !.line = @ + Counted(prv.what)]
  /\ produced' = produced + LineEnds(prv.what)
  /\ handed' = IF prv.what.type = "text"
               THEN [type |-> "text", front |-> prv.front, back |-> p.strip_before]
               ELSE Nothing
  /\ earlier' = parser.prv.what
  /\ UNCHANGED blamed

-----------------------------------------------------------------------------
(* template_reader() *)

\* template_text(): a chunk begins after the white space that is dropped.
ReadText(last) ==
  /\ ~parser.in_expr /\ blamed = <<>>
  /\ parser.cur.what.type \notin {"text", "eof"}
  /\ \E text \in Texts :
       /\ FormatChunk([parser EXCEPT !.in_expr = ~last,
            !.cur = Chunk(text, parser.line, passed + IF parser.strip_after THEN text.lead ELSE 0,
                          parser.strip_after)])
       /\ passed' = passed + text.lead + text.rest
  /\ UNCHANGED tags

ReadEnd ==
  /\ ~parser.in_expr /\ blamed = <<>>
  /\ parser.cur.what.type # "eof"
  /\ FormatChunk([parser EXCEPT !.cur = Chunk(EndOfFile, parser.line, passed, FALSE)])
  /\ UNCHANGED <<passed, tags>>

\* template_code()
StripOnce(strip, dash) == strip \/ dash \* mutant
StripAgain(strip, dash) == dash

ReadTag ==
  /\ parser.in_expr /\ blamed = <<>> /\ tags < MaxTags
  /\ \E tag \in Tags :
       /\ FormatChunk([parser EXCEPT !.in_expr = FALSE,
            !.strip_before = StripAgain(@, tag.before), !.strip_after = StripAgain(@, tag.after),
            !.cur = Chunk(tag, parser.line, passed, FALSE)])
       /\ passed' = passed + tag.lines
  /\ tags' = tags + 1

-----------------------------------------------------------------------------
(* template_error(): Lua rejects the chunk it was given, at some line of it.
   The line Lua names counts from the begin of what it was given. *)

TemplateError(inside) ==
  LET prv == parser.prv
      named == 1 + produced - LineEnds(prv.what) + inside
  IN
  /\ blamed = <<>> /\ prv.what # Nothing
  /\ inside <= LineEnds(prv.what)
  /\ blamed' = <<1 + prv.at + inside, prv.at + (named - prv.line)>>
  /\ UNCHANGED <<parser, handed, produced, passed, tags, earlier>>

\* A tag that does not end makes the reader return what Lua cannot read, and
\* the error is said to be at the end of the file.
UnclosedTag(lines) ==
  /\ parser.in_expr /\ blamed = <<>>
  /\ parser' = [parser EXCEPT !.prv = parser.cur]
  /\ passed' = passed + lines
  /\ blamed' = <<passed', passed'>>
  /\ UNCHANGED <<handed, produced, tags, earlier>>

ParserNext ==
  \/ ReadText(TRUE) \/ ReadText(FALSE) \/ ReadEnd \/ ReadTag
  \/ \E lines \in 0..MaxLines : TemplateError(lines) \/ UnclosedTag(lines)

ParserSpec == ParserInit /\ [][ParserNext]_parserVars

-----------------------------------------------------------------------------
(* Properties *)

\* White space at the begin of a text is dropped if the tag before it asks for it,
\* and at its end if the tag behind it does, though the two tags set the same
\* fields and the text is formatted when both are known.  (The last text of a
\* template has no tag behind it, and loses its white space if the last tag
\* begins with a dash.)
TextKept ==
  handed # Nothing /\ blamed = <<>> =>
    /\ handed.front <=> (earlier # Nothing /\ earlier.after)
    /\ parser.cur.what.type # "eof" => (handed.back <=> parser.cur.what.before)

\* An error in a piece of code or in an expression is told with its line in the
\* template, though line ends of texts, comments and translations do not reach
\* Lua and those of code are counted only when it is handed out.  (In a text, or
\* at the end, those of the tag before count twice.)
ErrorLine ==
  blamed # <<>> /\ parser.prv.what.type \in {"code", "expr"} => blamed[1] = blamed[2]

\* Texts lose the white space they are to lose, errors are told with their line.
TemplateSound == TextKept /\ ErrorLine
=============================================================================
