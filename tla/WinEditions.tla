---------------------------- MODULE WinEditions ----------------------------
(***************************************************************************)
(* Which image of an install.wim a Windows profile installs                *)
(* (services/winprofile.py).  An edition asked for is [index, name]: a     *)
(* number (index > 0), a name, or Ask when both are empty.  An image is    *)
(* [index, name, display].  Names are compared without regard to case, so  *)
(* one value stands for all the spellings of a name.                       *)
(***************************************************************************)
EXTENDS Integers, Sequences

CONSTANTS LtscNames, ServerNames   \* the names with "ltsc", with "server" in them

Targets == {"client", "10-ltsc", "11-ltsc", "server"}
Ask == [index |-> 0, name |-> ""]
NoImage == [index |-> 0, name |-> "", display |-> ""]

(* The first image a condition holds of: Python's next((...), None).       *)
FirstImage(images, Cond(_)) ==
    LET hits == {i \in DOMAIN images : Cond(images[i])}
    IN IF hits = {} THEN NoImage
       ELSE images[CHOOSE i \in hits : \A j \in hits : i <= j]

MatchEdition(images, v) ==
    LET named == FirstImage(images, LAMBDA im : im.name = v.name)
        shown == FirstImage(images, LAMBDA im : im.display = v.name)
    IN IF v = Ask THEN NoImage
       ELSE IF v.index > 0 THEN FirstImage(images, LAMBDA im : im.index = v.index)
       ELSE IF named # NoImage THEN named ELSE shown

EditionWarning(images, v) ==
    v # Ask /\ images # <<>> /\ MatchEdition(images, v) = NoImage

(* A number says nothing of the kind of Windows, a name does.              *)
TargetWarning(target, v) ==
    LET ltsc == v.name \in LtscNames
        server == v.name \in ServerNames
    IN /\ v # Ask /\ v.index = 0
       /\ CASE target \in {"10-ltsc", "11-ltsc"} -> ~ltsc
            [] target = "server" -> ~server
            [] OTHER -> ltsc \/ server

NameOf(im) ==
    IF im.name # "" THEN [index |-> 0, name |-> im.name]
    ELSE IF im.display # "" THEN [index |-> 0, name |-> im.display]
    ELSE [index |-> im.index, name |-> ""]

EditionFallback(images, target) ==
    LET fits == {i \in DOMAIN images : ~TargetWarning(target, NameOf(images[i]))}
        pool == IF fits = {} THEN DOMAIN images ELSE fits
    IN IF images = <<>> THEN Ask
       ELSE NameOf(images[CHOOSE i \in pool :
                \A j \in pool : \/ images[i].index < images[j].index
                                \/ images[i].index = images[j].index /\ i <= j])

EditionForImage(v, images, target) ==
    IF EditionWarning(images, v) THEN EditionFallback(images, target) ELSE v

\* Mutant: a number says nothing, as in TargetWarning.
EditionNameIsRefused(v, bound) ==
    /\ v # Ask /\ v.index = 0
    /\ \E images \in bound : images # <<>>
    /\ \A images \in bound : images = <<>> \/ MatchEdition(images, v) = NoImage

(* check_edition_for_isos: bound is the images of the ISOs the profile's   *)
(* answer is used by, those with no known edition left out.                *)
EditionIsRefused(v, bound) ==
    /\ v # Ask
    /\ \E images \in bound : images # <<>>
    /\ \A images \in bound : images = <<>> \/ MatchEdition(images, v) = NoImage
=============================================================================
