----------------------------- MODULE MCSseParser -----------------------------
(***************************************************************************)
(* Responses of up to two events, valid and invalid ones, that may end     *)
(* after any token.                                                        *)
(***************************************************************************)
EXTENDS SseParser

F(field, value) == [field |-> field, value |-> value]

EventBlocks ==
  { <<F("event", "data"), F("data", "AQID"), F("data", "BA==")>>,
    <<F("other", ""), F("event", "data"), F("data", "{}")>>,
    <<F("event", "data"), F("event", "control"), F("data", "{}")>>,
    <<F("data", "{}"), F("event", "control")>>,
    <<F("event", "control"), F("data", "AQID")>>,
    <<F("data", "BA==")>>,
    <<F("event", "data"), F("invalid", "")>>,
    <<>> }

MCTexts == {"", "data", "control", "AQID", "BA==", "{}"}

MCDecodable == {<<>>, <<"AQID">>, <<"BA==">>, <<"AQID", "BA==">>}
MCControlJson == {<<"{}">>}

(* Lines and the empty line behind them, all with the same ending.  A      *)
(* response of two such blocks may have two kinds of endings.              *)
Text(lines, empty) ==
  FlattenSeq([i \in DOMAIN lines |-> <<lines[i]>> \o empty]) \o empty

Whole(endings) ==
  {Text(x, e) \o Text(y, f) : x \in EventBlocks, y \in EventBlocks, <<e, f>> \in endings}

Ending == {<<CR>>, <<LF>>, <<CR, LF>>}

AllBodies ==
  UNION {Prefixes(text) :
           text \in Whole({<<e, e>> : e \in Ending}
                            \cup {<<<<LF>>, <<CR>>>>, <<<<CR>>, <<CR, LF>>>>})}

CrLfBodies == UNION {Prefixes(text) : text \in Whole({<<<<CR, LF>>, <<CR, LF>>>>})}
=============================================================================
