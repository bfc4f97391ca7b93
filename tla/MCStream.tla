------------------------------- MODULE MCStream -------------------------------
(***************************************************************************)
(* Instances of Stream: a screen of 2 rows and 5 columns, and suites of    *)
(* commands, each about one part of the terminal.                          *)
(***************************************************************************)
EXTENDS Stream

MCLeads == ("e6" :> 2) @@ ("ef" :> 2) @@ ("e2" :> 2) @@ ("c2" :> 1)
MCSecondBytes == ("e6" :> {"b1"}) @@ ("ef" :> {"b8", "bf", "b7"}) @@ ("e2" :> {"94", "9d"}) @@ ("c2" :> {"a3"})
MCContinuations == {"b1", "89", "b8", "8f", "bf", "bd", "b7", "90", "94", "80", "9d", "a4", "a3"}
MCNeverBytes == {"ff"}
MCReplacement == <<"ef", "bf", "bd">>
MCStandIn == <<"ef", "b7", "90">>
MCVS16 == <<"ef", "b8", "8f">>

Han == <<"e6", "b1", "89">>
Heart == <<"e2", "9d", "a4">>
LineGlyph == <<"e2", "94", "80">>
Pound == <<"c2", "a3">>

MCWide == {Han}
MCWidened == {Heart}
MCGlyphs == ("Ascii" :> << >>) @@ ("Uk" :> ("#" :> Pound)) @@ ("DecSpecialGraphics" :> ("q" :> LineGlyph))
MCBase64Text == (<<"aGk=">> :> {<<"hi">>})
MCSixelBits == ("~" :> 1 .. 6) @@ ("@" :> {1})
MCNumbers == 0 .. 60 \union {1000, 1002, 1003, 1004, 1005, 1006, 1015, 1047, 1049, 2004, 2026}

C(bytes, kind, arg) == [bytes |-> bytes, means |-> <<kind, arg>>]
E(bytes, kind, arg) == C(<<"ESC">> \o bytes, kind, arg)
Text(chars) == C(FlattenSeq(chars), "text", chars)
St == <<"ESC", "\\">>

Charsets == {
    E(<<"(", "0">>, "designate", <<"g0", "DecSpecialGraphics">>),
    E(<<"*", "A">>, "designate", <<"g2", "Uk">>),
    Text(<< <<"q">>, <<"#">>, Han >>),
    C(<<"SO">>, "shift", TRUE),
    E(<<"N">>, "single", "g2"),
    E(<<"7">>, "save", ""),
    E(<<"8">>, "restore", ""),
    E(<<"[", "!", "p">>, "soft", "")}

Strings == {
    E(<<"]", "8", ";", "id", "=", "1", ";", "uri">> \o St, "link", <<"uri">>),
    E(<<"]", "8", ";", ";", "BEL">>, "unlink", ""),
    E(<<"(", "0">>, "designate", <<"g0", "DecSpecialGraphics">>),
    Text(<< <<"q">>, Han >>),
    E(<<"]", "2", ";", "t", "ESC", "[", "5", "m">>, "none", ""),
    E(<<"]", "2", ";", "t", ";", "u">> \o St, "title", <<"t", ";", "u">>),
    E(<<"]", "5", "2", ";", "c", ";", "aGk=", "CAN">>, "none", ""),
    E(<<"c">>, "hard", "")}

Resets == {
    E(<<"[", "!", "p">>, "soft", ""),
    E(<<"c">>, "hard", "")}

MouseCommands == Resets \union {
    E(<<"[", "?", "1000", ";", "1006", "h">>, "set", <<1000, 1006>>),
    E(<<"[", "?", "1006", "l">>, "reset", <<1006>>),
    E(<<"[", "?", "BEL", "12", "l">>, "bell", ""),
    E(<<"[", "?", "1002", ";", "2026", "h">>, "set", <<1002, 2026>>)}

Updates == Resets \union {
    E(<<"[", "?", "1004", ";", "2026", "h">>, "set", <<1004, 2026>>),
    E(<<"[", "?", "2026", ";", "1004", "l">>, "reset", <<2026, 1004>>),
    E(<<"CR", "[", "?", "6", "n">>, "none", "")}

Inserting == {
    E(<<"[", "4", "h">>, "set", <<4>>),
    Text(<< <<"a">>, Han, <<"b">> >>),
    Text(<<Heart, MCVS16>>),
    Text(<<MCVS16>>),
    C(<<"CR">>, "none", ""),
    E(<<"[", "5", ";", "38", ";", "5", ";", "1", "m">>, "none", ""),
    C(<<"e6", "x">>, "none", "")}

ScrollingText == {
    C(<<"a", "CR", "LF", "b", "LF">>, "none", ""),
    Text(<< <<"c">>, <<"d">>, <<"e">>, <<"f">>, <<"g">>, <<"h">> >>),
    E(<<"[", "3", "J">>, "none", "")}

Reset == E(<<"c">>, "hard", "")

Alternate == {
    E(<<"[", "?", "1049", "h">>, "none", ""),
    E(<<"[", "?", "1049", "l">>, "none", "")}

UploadCommands == {
    E(<<"_", "G", "i", "=", "1", ",", "s", "=", "4", ",", "v", "=", "4", ",", "a", "=", "T", ",", "m", "=", "1", ";", "x">> \o St, "upload", "more"),
    E(<<"_", "G", "m", "=", "0", ";", "y">> \o St, "upload", "last")}

KittyCommands == UploadCommands \union {
    E(<<"_", "G", "a", "=", "d", ",", "d", "=", "I", ",", "i", "=", "1">> \o St, "upload", "delete"),
    E(<<"_", "G", "a", "=", "q", ",", "i", "=", "2">> \o St, "upload", "query"),
    E(<<"_", "G", "a", "=", "q", ",", "i", "=", "2", ",", "m", "=", "1">> \o St, "upload", "query more")}

ImageCommands == UploadCommands \union {
    E(<<"_", "G", "a", "=", "p", ",", "i", "=", "1">> \o St, "upload", "beside"),
    E(<<"P", "q", "~", "-", "@">> \o St, "upload", "sixel"),
    E(<<"_", "x">> \o St, "none", "")}

TabStopCommands == {
    C(<<"HT">>, "none", ""),
    E(<<"H">>, "none", ""),
    E(<<"[", "1000", "I">>, "none", ""),
    E(<<"[", "Z">>, "none", ""),
    E(<<"[", "3", "g">>, "none", ""),
    Text(<< <<"a">> >>)}

Colours == {
    Text(<< <<"a">> >>),
    E(<<"[", "58", ";", "5", ";", "1", ";", "8", "m">>, "none", ""),
    E(<<"[", "38", ":", "2", ":", ":", "1", ":", "2", ":", "3", "m">>, "none", ""),
    C(<<"HT">>, "none", "")}

MCSuites == {Charsets, Strings, MouseCommands, Updates, Inserting, KittyCommands, ImageCommands,
             TabStopCommands, Colours,
             ScrollingText \union {Reset}, ScrollingText \union Alternate}

(* The two together: a reset may find the alternate screen up, resized. *)
ResetOnAlternate == {ScrollingText \union Alternate \union {Reset}}

MCCellSize == {<<2, 2>>}
MCSizes == {<<3, 4>>, <<2, 6>>}
===============================================================================
