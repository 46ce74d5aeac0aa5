------------------------------- MODULE Forms --------------------------------
(***************************************************************************)
(* What a record goes through in a form and back: the row as the API shows *)
(* it fills the controls, what stands in them is checked and sent, and the  *)
(* server checks it again and replaces the whole row (the request is called *)
(* PATCH, but what it leaves out is emptied).  Between the filling and the  *)
(* writing other people write to the row.  Six forms are told apart, by     *)
(* their fields and the kind of control of each.                            *)
(*                                                                          *)
(* Values are told apart as far as some check or conversion does: "" and    *)
(* " " are blank, " new " is padded, "long" exceeds its maximum, "bad" is   *)
(* malformed or out of range, "old" is the first choice of a select and     *)
(* today of a date.                                                         *)
(***************************************************************************)
EXTENDS FiniteSets

VARIABLES
    kind,       \* the form a behaviour is about
    focus,      \* bound: the field in which people make changes
    row,        \* server: the row the form is about, or NoRow
    form,       \* the form on the screen, see NoEntry
    request     \* the request under way, see NoRequest

frVars == <<kind, focus, row, form, request>>

Null == "null"
NoRow == <<>>

\* base: the row the form was filled from. values: what its controls hold.
NoEntry == [open |-> FALSE, base |-> NoRow, values |-> NoRow]
\* The form as it was submitted, until its answer is there.
NoRequest == [phase |-> "none", base |-> NoRow, values |-> NoRow]

-----------------------------------------------------------------------------
(* The fields. Kinds of controls:                                           *)
(*   line     text that is required                                         *)
(*   title    the same, checked without its blanks and trimmed by the form  *)
(*   theme    text the server requires and the form does not check          *)
(*   text, email, day, pick, choice, minutes, phone: as they are named;     *)
(*   maybe    a date or a choice that may be left open                      *)
(*   jenis    a choice left open is stored as the first one                 *)
(*   age, number, rank: numbers of a form without a schema                  *)
(* Without a control: "carried" goes back as it came, "unsent" is a column  *)
(* of the update that the form does not send, "kept" is none of its columns.*)

StudentFields ==
    [name |-> "line", nickname |-> "text", dateOfBirth |-> "maybe",
     gender |-> "choice", level |-> "pick", kelompok |-> "pick",
     city |-> "text", joinedAt |-> "maybe", leftAt |-> "maybe",
     leaveReason |-> "text", status |-> "choice", parentName |-> "text",
     parentPhone |-> "text", parentEmail |-> "email"]

TeacherFields ==
    [name |-> "line", nickname |-> "text", kelompok |-> "line",
     desa |-> "line", daerah |-> "line", joinedAt |-> "maybe",
     retiredAt |-> "maybe", status |-> "choice", notes |-> "text"]

AttendanceFields ==
    [date |-> "day", durationMin |-> "minutes", teacherId |-> "pick",
     studentId |-> "pick", status |-> "choice", materi |-> "text",
     submittedPhone |-> "kept"]

ReportFields == [AttendanceFields EXCEPT !.submittedPhone = "phone"]

MateriFields ==
    [nomor |-> "number", sumberNo |-> "unsent", tema |-> "theme",
     subTema |-> "theme", rincian |-> "text", materi |-> "title",
     cakupan |-> "carried", deskripsi |-> "carried",
     statusPromes |-> "carried", jenis |-> "jenis", semester |-> "maybe",
     keterangan |-> "text", targetSemester |-> "text"]

TingkatFields == [nama |-> "title", urutan |-> "rank", umur |-> "age"]

FieldsOf == [student |-> StudentFields, teacher |-> TeacherFields,
             attendance |-> AttendanceFields, report |-> ReportFields,
             materi |-> MateriFields, tingkat |-> TingkatFields]

Fields == DOMAIN FieldsOf[kind]
Control(f) == FieldsOf[kind][f]
HasSchema == kind \in {"student", "teacher", "attendance", "report"}

Hidden == {"carried", "unsent", "kept"}

\* What the columns can hold: the update itself writes no empty text, the
\* seed does; a name of blanks is stored as an empty one.
Storable(c) ==
    CASE c = "line" -> {"", "old", "new"}
      [] c = "text" -> {Null, "", "old", "new"}
      [] c = "minutes" -> {Null, "0", "old", "new"}
      [] c = "rank" -> {"0", "old", "new"}
      [] c = "carried" -> {Null, "", "old", "new"}
      [] c \in {"email", "maybe", "age"} \cup Hidden -> {Null, "old", "new"}
      [] OTHER -> {"old", "new"}

\* What a person can leave in a control; selects and dates only hold what
\* they offer.
Typable(c) ==
    CASE c \in {"line", "title", "theme", "text"} ->
            {"", " ", "old", "new", " new ", "long"}
      [] c \in {"email", "phone", "age"} -> {"", "old", "new", "bad"}
      [] c = "minutes" -> {"", "0", "old", "new", "bad"}
      [] c \in {"number", "rank"} -> {"0", "old", "new", "bad"}
      [] c \in {"day", "maybe", "pick", "jenis"} -> {"", "old", "new"}
      [] c = "choice" -> {"old", "new"}
      [] c \in Hidden -> {}

Held(c) == Storable(c) \cup Typable(c)

\* Types: the form holds what its controls can hold, and whatever goes through
\* it, the row holds what its columns can.
FrTypeOK ==
    /\ kind \in DOMAIN FieldsOf
    /\ focus \in Fields
    /\ row # NoRow =>
          /\ DOMAIN row = Fields
          /\ \A f \in Fields : row[f] \in Storable(Control(f))
    /\ form.open \in BOOLEAN
    /\ request.phase \in {"none", "sent", "written"}
    /\ \A e \in {form, request} :
          e.values # NoRow =>
              /\ DOMAIN e.values = Fields
              /\ \A f \in Fields : e.values[f] \in Held(Control(f))
    /\ form.open <=> form.values # NoRow
    /\ request.phase = "none" <=> request.values = NoRow

-----------------------------------------------------------------------------
(* From the row to the controls, and back. *)

Trim(v) == CASE v = " " -> "" [] v = " new " -> "new" [] OTHER -> v

\* defaultValues: what is null is an empty control; what has no control stays.
Shown(f, v) == IF v = Null /\ Control(f) \notin Hidden THEN "" ELSE v

\* An empty form: a select without an open choice stands on its first one,
\* a date on today, a number on its least value.
Default(f) ==
    CASE Control(f) \in {"choice", "day", "number"} -> "old"
      [] Control(f) = "rank" -> "0"
      [] Control(f) \in Hidden -> Null
      [] OTHER -> ""

\* A mistake the runs must notice: a select may be left open.
PassesOpen(f, v) ==
    LET c == Control(f)
    IN  IF HasSchema
        THEN /\ c \in {"line", "day", "phone"} => v # ""
             /\ v \notin {"long", "bad"}
        ELSE /\ c = "title" => Trim(v) # ""
             /\ c = "number" => v # "0"

\* The schema, or the condition on the button of a form without one.
PassesForm(f, v) ==
    LET c == Control(f)
    IN  IF HasSchema
        THEN /\ c \in {"line", "day", "pick", "phone"} => v # ""
             /\ v \notin {"long", "bad"}
        ELSE /\ c = "title" => Trim(v) # ""
             /\ c = "number" => v # "0"

\* A mistake the runs must notice: every falsy value is left out.
InputFalsy(f, v) ==
    CASE Control(f) \in {"kept", "unsent"} -> Null
      [] ~HasSchema /\ Control(f) \in {"title", "theme", "text"} -> Trim(v)
      [] Control(f) \in {"age", "maybe"} /\ v = "" -> Null
      [] HasSchema /\ v \in {"", "0"} -> Null
      [] OTHER -> v

\* onSubmit: the request's body. The schema forms leave an empty control out
\* of it, a zero is sent.
Input(f, v) ==
    CASE Control(f) \in {"kept", "unsent"} -> Null
      [] ~HasSchema /\ Control(f) \in {"title", "theme", "text"} -> Trim(v)
      [] Control(f) \in {"age", "maybe"} /\ v = "" -> Null
      [] HasSchema /\ v = "" -> Null
      [] OTHER -> v

\* The validator of the handler. Blanks pass as a required text.
Accepts(f, in) ==
    LET c == Control(f)
    IN  /\ c \in {"line", "title", "theme", "day", "pick", "phone"} =>
              in \notin {"", Null}
        /\ c = "number" => in # "0"
        /\ in \notin {"long", "bad"}

\* A mistake the runs must notice: an open jenis is stored as it is.
WrittenOpen(f, in, old) ==
    CASE Control(f) = "kept" -> old
      [] Control(f) \in {"text", "email", "maybe", "carried"} /\ Trim(in) = ""
            -> Null
      [] OTHER -> Trim(in)

\* parse, then the UPDATE of every column: an optional text that is blank is
\* null. Only the column that is not in the statement keeps its value.
Written(f, in, old) ==
    CASE Control(f) = "kept" -> old
      [] Control(f) = "jenis" /\ in = "" -> "old"
      [] Control(f) \in {"text", "email", "maybe", "carried"} /\ Trim(in) = ""
            -> Null
      [] OTHER -> Trim(in)

Body == [f \in Fields |-> Input(f, request.values[f])]

-----------------------------------------------------------------------------
FrInit ==
    /\ kind \in DOMAIN FieldsOf
    /\ focus \in Fields
    /\ row \in {NoRow} \cup
         {[f \in Fields |-> IF f = focus THEN v ELSE "old"] :
            v \in Storable(Control(focus))}
    /\ kind = "report" => row = NoRow
    /\ form = NoEntry
    /\ request = NoRequest

\* The form opens, for the row (fetched anew: how old a cached one can be is
\* the matter of RecordScreen) or for a new one; the public form has no other.
OpenForm ==
    LET base == IF kind = "report" THEN NoRow ELSE row
    IN  /\ ~form.open
        /\ form' = [open |-> TRUE, base |-> base,
                    values |-> [f \in Fields |->
                                  IF base = NoRow THEN Default(f)
                                  ELSE Shown(f, base[f])]]
        /\ UNCHANGED <<kind, focus, row, request>>

\* A control is changed, also while a request is under way.
Fill(v) ==
    /\ form.open
    /\ v # form.values[focus]
    /\ form' = [form EXCEPT !.values[focus] = v]
    /\ UNCHANGED <<kind, focus, row, request>>

CloseForm ==
    /\ form.open
    /\ form' = NoEntry
    /\ UNCHANGED <<kind, focus, row, request>>

\* The submit button, disabled while the mutation is pending.
SubmitForm ==
    /\ form.open /\ request.phase = "none"
    /\ \A f \in Fields : PassesForm(f, form.values[f])
    /\ request' = [phase |-> "sent", base |-> form.base,
                   values |-> form.values]
    /\ UNCHANGED <<kind, focus, row, form>>

\* The server takes the request. A new record submitted again after a lost
\* answer is one more row: the variable then follows that one.
StoreInput ==
    /\ request.phase = "sent"
    /\ \A f \in Fields : Accepts(f, Body[f])
    /\ row' = [f \in Fields |->
                 Written(f, Body[f],
                         IF request.base = NoRow THEN Null ELSE row[f])]
    /\ request' = [request EXCEPT !.phase = "written"]
    /\ UNCHANGED <<kind, focus, form>>

\* It refuses it (also for a constraint, or because the row is gone), or the
\* answer is lost: the form keeps what stands in it, next to the error.
FailForm ==
    /\ request.phase # "none"
    /\ request' = NoRequest
    /\ UNCHANGED <<kind, focus, row, form>>

\* The answer closes the form, also one opened again meanwhile.
SavedForm ==
    /\ request.phase = "written"
    /\ request' = NoRequest
    /\ form' = NoEntry
    /\ UNCHANGED <<kind, focus, row>>

\* Another administrator, an import or the seed writes.
WriteElsewhere(v) ==
    /\ row # NoRow
    /\ row' = [row EXCEPT ![focus] = v]
    /\ UNCHANGED <<kind, focus, form, request>>

FrNext ==
    \/ OpenForm \/ CloseForm \/ SubmitForm
    \/ StoreInput \/ FailForm \/ SavedForm
    \/ \E v \in Typable(Control(focus)) : Fill(v)
    \/ \E v \in Storable(Control(focus)) : WriteElsewhere(v)

FrSpec == FrInit /\ [][FrNext]_frVars

-----------------------------------------------------------------------------
\* What a reader sees of a column, and what a person means who leaves a
\* control like that.
Reads(v) == IF v = Null THEN "" ELSE v
Meant(f, v) == IF Control(f) = "jenis" /\ v = "" THEN "old" ELSE Reads(Trim(v))

\* A save through a form (StudentForm, TeacherForm, AttendanceForm,
\* MateriForm, TingkatForm) stores what was changed in it, and leaves every
\* field alone that was not, although the server replaces the whole row; a
\* new record, also a report of the public form, is stored as it was filled
\* in. Two things are left out: what somebody else wrote to an untouched
\* field after the form was filled is taken back; and sumberNo, which
\* MateriForm does not send, is emptied.
SavesEditsOnly ==
    [][ request.phase = "sent" /\ request'.phase = "written" =>
          \A f \in Fields \ {"sumberNo"} :
             LET v == request.values[f]
                 base == request.base
             IN  IF base = NoRow \/ v # Shown(f, base[f])
                 THEN Reads(row'[f]) = Meant(f, v)
                 ELSE row[f] = base[f] => Reads(row'[f]) = Reads(row[f])
      ]_frVars

\* What the schema of a form lets pass the validator of its handler accepts,
\* so that an error under one of these forms is never about a field (the two
\* forms of the kurikulum page have no schema).
SchemasAgree ==
    HasSchema /\ request.phase = "sent" =>
        \A f \in Fields : Accepts(f, Body[f])
=============================================================================
