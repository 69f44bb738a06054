----------------------------- MODULE FormEntry ------------------------------
(***************************************************************************)
(* One form of the web client: what the user types into it, what the page  *)
(* does to the draft meanwhile, what is sent, what the server stores of it, *)
(* and what the page says when the server refuses.  One field is followed,  *)
(* chosen at the start; the others are taken to be filled in and accepted.  *)
(***************************************************************************)
EXTENDS Naturals

CONSTANTS
    Forms,        \* the forms, by name (records described in WebKit)
    Partial,      \* the calls that change only the fields they are given (PATCH)
    Drafts,       \* <<f, g>>: opening the form g overwrites the draft of f
    Nested,       \* <<form, field>>: a field that is sent inside a record of its own
    Blank,        \* an empty input
    Values,       \* what else can be typed or stored
    Zero,         \* the one of them that is the number 0
    Default,      \* the one of them that the code puts where nothing was chosen
    Untouched,    \* the user has not typed in the field
    Left,         \* the request does not mention the field
    Kept,         \* <<form, field>>: an emptied field that stays as it was
    PageFills,    \* <<form, field>>: the page sends its default for an empty input
    ServerFills,  \* <<form, field>>: the server has a default for a new row's field
    ZeroAsBlank,  \* <<form, field>>: the page takes a typed 0 for an empty input
    Unread,       \* <<form, field>>: the server may pass over what is sent
    Replaced,     \* <<form, field>>: the server may put its own value in the place
    Overwritten,  \* the forms that lose what is typed in them
    Silent        \* <<form, reason>>: the refusals the page says nothing about

Form == DOMAIN Forms
FieldsOf(f) == Forms[f].needs \cup Forms[f].sends \cup Forms[f].omits
Whole == "non_field_errors"    \* what a refusal about no field in particular is about
(* A form without fields, which confirms a deletion, is followed as a whole. *)
Followed(f) == IF FieldsOf(f) = {} THEN {Whole} ELSE FieldsOf(f)
Content == Values \cup {Blank}

(* What the page shows of a refusal. *)
Nothing == "nothing"
OfField == "the reason, beside the field"
SeeFields == "Please check the highlighted fields."
RequestFailed == "the request failed"
Notices == {Nothing, OfField, SeeFields, RequestFailed}

ASSUME FormsOK ==
    /\ Blank \notin Values
    /\ {Zero, Default} \subseteq Values
    /\ Untouched \notin Content
    /\ Left \notin Content
    /\ Whole \notin UNION {FieldsOf(f) : f \in Form}
    /\ \A f \in Form : Forms[f].parse \in {"fields", "text", "generic", "raw", "nothing"}
    /\ Drafts \subseteq Form \X Form

(* What is listed of the forms: the optional fields a PATCH is not told are  *)
(* empty, and the forms something else writes into.                          *)
ASSUME ListedForms ==
    /\ \A f \in Form : Forms[f].call \in Partial =>
         \A x \in Forms[f].omits \ Forms[f].needs : <<f, x>> \in Kept
    /\ \A f \in Form : Forms[f].refills \/ (\E g \in Form : <<f, g>> \in Drafts) => f \in Overwritten

VARIABLES
    form, field,  \* the form and the field followed
    phase,        \* "open", "sent", "saved" or "refused"
    stored,       \* the server's value of the field
    input,        \* what the input holds
    typed,        \* what the user last put there
    body,         \* what the request says of the field
    notice        \* what the page shows

formVars == <<form, field, phase, stored, input, typed, body, notice>>

Edits(f) == Forms[f].call \in Partial

OpenedWithRequest(f, value) ==    \* the last request is not forgotten
    /\ phase' = "open"
    /\ input' = IF Edits(f) THEN value ELSE Blank
    /\ typed' = Untouched
    /\ UNCHANGED body
    /\ notice' = Nothing

Opened(f, value) ==
    /\ phase' = "open"
    /\ input' = IF Edits(f) THEN value ELSE Blank
    /\ typed' = Untouched
    /\ body' = Left
    /\ notice' = Nothing

FormInit ==
    /\ form \in Form
    /\ field \in Followed(form)
    /\ phase = "open"
    /\ stored \in IF Edits(form) THEN Content ELSE {Blank}
    /\ input = IF Edits(form) THEN stored ELSE Blank
    /\ typed = Untouched
    /\ body = Left
    /\ notice = Nothing

----------------------------------------------------------------------------
(* The user.  A form that was refused is corrected and sent again. *)
Editing == phase \in {"open", "refused"}

Type(v) ==
    /\ Editing
    /\ input' = v
    /\ typed' = v
    /\ UNCHANGED <<form, field, phase, stored, body, notice>>

SendsFilledIn(f, x, v) == IF v = Blank THEN Left ELSE v    \* every empty field is left out
Emptied(f, x, v) == v = Blank \/ (v = Zero /\ <<f, x>> \in ZeroAsBlank)
Sends(f, x, v) ==
    IF ~Emptied(f, x, v) THEN v
    ELSE IF <<f, x>> \in PageFills THEN Default
    ELSE IF x \in Forms[f].omits THEN Left ELSE Blank
Complete(f, x, v) == v = Blank => x \notin Forms[f].needs

Submit ==
    /\ Editing
    /\ Complete(form, field, input)
    /\ phase' = "sent"
    /\ body' = Sends(form, field, input)
    /\ notice' = Nothing
    /\ UNCHANGED <<form, field, stored, input, typed>>

(* Leaving the form, or coming back to it. *)
Reopen ==
    /\ phase # "sent"
    /\ stored' = IF Edits(form) THEN stored ELSE Blank
    /\ Opened(form, stored)
    /\ UNCHANGED <<form, field>>

(* The dialog that edits a row writes into the draft of the one that adds a *)
(* row.                                                                      *)
OpenOther ==
    /\ \E g \in Form : <<form, g>> \in Drafts
    /\ Editing
    /\ \E v \in Content : input' = v
    /\ UNCHANGED <<form, field, phase, stored, typed, body, notice>>

(* An answer of the query the form is filled from arrives while it is open,  *)
(* and differs from the last one, in this field or in another.               *)
Refill ==
    /\ Forms[form].refills
    /\ Editing
    /\ \E v \in IF Edits(form) THEN {stored} ELSE Content : input' = v
    /\ UNCHANGED <<form, field, phase, stored, typed, body, notice>>

----------------------------------------------------------------------------
(* The server. *)
Stores(f, x, value, b) ==
    IF b # Left THEN b
    ELSE IF Edits(f) THEN value
    ELSE IF <<f, x>> \in ServerFills THEN Default ELSE Blank

(* What may be stored: who the user is, or what day it is, decides whether a *)
(* field is read and whether its value is replaced.                          *)
Outcomes(f, x, value, b) ==
    {Stores(f, x, value, b)}
        \cup {v \in {value} : <<f, x>> \in Unread}
        \cup {v \in {Default} : <<f, x>> \in Replaced}

Accept ==
    /\ phase = "sent"
    /\ stored' \in Outcomes(form, field, stored, body)
    /\ phase' = "saved"
    /\ UNCHANGED <<form, field, input, typed, body, notice>>

(* The exception handler answers {message, details}: the reason is in the   *)
(* details, under the field's name or under none, and the message is always  *)
(* SeeFields.  Details that are records are passed over.  A field that is    *)
(* not mentioned is not refused.                                             *)
SaysFieldsOnly(f, reason) ==    \* messages about the whole form are passed over
    CASE Forms[f].parse = "fields" -> IF reason \in Forms[f].shows \ {Whole} THEN OfField ELSE Nothing
      [] Forms[f].parse = "text"    -> SeeFields
      [] Forms[f].parse = "generic" -> RequestFailed
      [] OTHER -> Nothing

OfForm(f, reason) == reason = Whole \/ <<f, reason>> \in Nested
Says(f, reason) ==
    CASE Forms[f].parse = "fields" ->
             IF OfForm(f, reason) THEN IF Whole \in Forms[f].shows THEN SeeFields ELSE Nothing
             ELSE IF reason \in Forms[f].shows THEN OfField ELSE Nothing
      [] Forms[f].parse = "text"    -> SeeFields
      [] Forms[f].parse = "generic" -> RequestFailed
      [] OTHER -> Nothing

Refuse(reason) ==
    /\ phase = "sent"
    /\ reason = field => body # Left
    /\ phase' = "refused"
    /\ notice' = Says(form, reason)
    /\ UNCHANGED <<form, field, stored, input, typed, body>>

OthersSave ==
    /\ Edits(form)
    /\ phase # "saved"
    /\ \E v \in Content : stored' = v
    /\ UNCHANGED <<form, field, phase, input, typed, body, notice>>

FormNext ==
    \/ \E v \in Content : Type(v)
    \/ Submit
    \/ Reopen
    \/ OpenOther
    \/ Refill
    \/ Accept
    \/ \E reason \in {field, Whole} : Refuse(reason)
    \/ OthersSave

FormSpec == FormInit /\ [][FormNext]_formVars

----------------------------------------------------------------------------
(* The types of the variables, and a request only where one is under way or  *)
(* has been answered.                                                        *)
FormTypeOK ==
    /\ form \in Form
    /\ field \in Followed(form)
    /\ phase \in {"open", "sent", "saved", "refused"}
    /\ stored \in Content
    /\ input \in Content
    /\ typed \in Content \cup {Untouched}
    /\ body \in Content \cup {Left}
    /\ notice \in Notices
    /\ phase = "open" => body = Left

(* What else may be found where v was typed: the fields listed as ones that  *)
(* an emptied input leaves alone, that the page or the server fills, that    *)
(* take a 0 for nothing, and that the server does not take as they are sent.  *)
KnownLoss(f, x, v, found) ==
    \/ v = Blank /\ <<f, x>> \in Kept
    \/ v = Blank /\ <<f, x>> \in PageFills \cup ServerFills /\ found = Default
    \/ v = Zero /\ <<f, x>> \in ZeroAsBlank
    \/ <<f, x>> \in Unread
    \/ <<f, x>> \in Replaced /\ found = Default

(* When the page reports success, the server holds what the user last typed, *)
(* whatever arrived or was opened in between, and an emptied field is empty:  *)
(* but for the forms that put something else into the input meanwhile, and    *)
(* the fields listed with what is found in them instead.                      *)
SavedAsTyped ==
    phase = "saved" /\ typed # Untouched
        => \/ stored = typed
           \/ form \in Overwritten /\ input # typed
           \/ KnownLoss(form, field, typed, stored)

(* A refusal is not passed over in silence. *)
NoSilentRefusal ==
    [][\A reason \in {field, Whole} :
         Refuse(reason) => notice' # Nothing \/ <<form, reason>> \in Silent]_formVars
=============================================================================
