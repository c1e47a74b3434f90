------------------------------- MODULE MenuText -------------------------------
(***************************************************************************)
(* What a USSD text means.  The gateway sends everything that was typed in *)
(* a session so far; the server undoes what the user took back and reads   *)
(* the rest as answers to its menus, the pages of a list included.         *)
(*                                                                         *)
(* A segment is a number: the digits of the menus stand for themselves,    *)
(* longer entries (a phone or meter number, an amount, a PIN) are named by *)
(* numbers above them.                                                     *)
(***************************************************************************)
EXTENDS Integers, SequencesExt

CONSTANTS
    PageSize    \* items on a page of a list (4 in the code)

ASSUME PageAssumption == PageSize \in 1..4

Back == 0       \* "0. Back", which every CON answer ends with
More == 5       \* the next page
Previous == 6   \* the page before

-----------------------------------------------------------------------------
(* Mutants of the definitions below. *)

PopAndAppend(text, seg) ==
    IF seg = Back THEN (IF text = <<>> THEN text ELSE Front(text)) \o <<Back>>
                  ELSE Append(text, seg)
PreviousUnchecked(count, prev, nav, seg) ==
    IF nav.error \/ nav.picked # 0 THEN nav
    ELSE IF seg = Previous THEN [nav EXCEPT !.page = @ - 1, !.used = @ + 1]
    ELSE IF seg = More THEN [nav EXCEPT !.page = @ + 1, !.used = @ + 1]
    ELSE [nav EXCEPT !.picked = nav.page * PageSize + 1, !.used = @ + 1]
-----------------------------------------------------------------------------

(* apply_back_navigation, one segment at a time: "0" takes back the last   *)
(* one that still stands.                                                  *)
Press(text, seg) ==
    IF seg = Back THEN IF text = <<>> THEN text ELSE Front(text)
                  ELSE Append(text, seg)

(* Where the reader of a paged list is: the page it shows, what was picked *)
(* on it (0: nothing yet), how many segments it took, and whether it met   *)
(* one that means nothing there.                                           *)
AtStart == [page |-> 0, picked |-> 0, used |-> 0, error |-> FALSE]

HasNext(count, page) == (page + 1) * PageSize < count

Read(count, prev, nav, seg) ==
    IF nav.error \/ nav.picked # 0 THEN nav
    ELSE IF seg = More /\ HasNext(count, nav.page)
         THEN [nav EXCEPT !.page = @ + 1, !.used = @ + 1]
    ELSE IF seg = Previous /\ prev /\ nav.page > 0
         THEN [nav EXCEPT !.page = @ - 1, !.used = @ + 1]
    ELSE IF seg \in 1..PageSize /\ nav.page * PageSize + seg <= count
         THEN [nav EXCEPT !.picked = nav.page * PageSize + seg, !.used = @ + 1]
    ELSE [nav EXCEPT !.error = TRUE]

(* parse_data_plan_menu_input and parse_swap_route_menu_input: the whole   *)
(* text is read again for every request.  prev says whether the menu has a *)
(* "previous page".                                                        *)
Parse(text, count, prev) ==
    FoldLeft(LAMBDA nav, seg : Read(count, prev, nav, seg), AtStart, text)

From(text, i) == SubSeq(text, i, Len(text))
=============================================================================
