------------------------------ MODULE ProductForm ------------------------------
(***************************************************************************)
(* The form of a product (products/product-form.tsx), for a new one        *)
(* (shown = "new") and for an existing one (shown = "edit"): its fields,   *)
(* its variants, which an existing product saves one by one, and the       *)
(* images chosen for upload.                                               *)
(*                                                                         *)
(* The texts of the fields are one value, formFields; a variant is its     *)
(* size and color as saved: what is typed into a row before "Save variant" *)
(* is left out, and so are the options of category, size and color.        *)
(***************************************************************************)
EXTENDS AdminSession, Sequences, SequencesExt

CONSTANTS
  Variants,   \* bound: variants of the product
  Files,      \* bound: image files to choose from
  MaxRows     \* bound: rows added to a new product

VARIABLES
  formFields,       \* "blank", "loaded" from the API, or "typed"
  localRows,        \* variants of a new product: how many rows
  existing,         \* existingVariants
  newVariant,       \* showNewVariantForm
  saving,           \* loading: the product is being saved
  selectedFiles,
  mainIndex,        \* mainSelectedIndex, from 1; 0 is null
  mainChosen,       \* history: the file whose "Main image" was clicked, or Nothing
  uploading,        \* imageUploading
  catalogue         \* the variants of the product in the database

imageVars == <<selectedFiles, mainIndex, mainChosen, uploading>>
variantVars == <<localRows, existing, newVariant>>
formVars == <<formFields, variantVars, saving, imageVars, catalogue>>

FormShown == shown \in {"new", "edit"}
Editing == shown = "edit"

--------------------------------------------------------------------------------
(* The product itself *)

(* fetchProduct runs at the mount of an existing product (BackOffice).     *)
EditFields ==
  /\ FormShown
  /\ formFields' = "typed"
  /\ UNCHANGED <<variantVars, saving, imageVars, catalogue, adminVars>>

(* What the answer brings replaces what was typed meanwhile.  A refused    *)
(* one falls back to the list, which has no variants.                      *)
ProductFetched ==
  \E c \in Asked("fetch"), reply \in Replies :
    /\ reply \in Answers(c.token)
    /\ IF reply = "refused"
       THEN /\ calls' = (calls \ {c}) \cup {[c EXCEPT !.op = "fallback"]}
            /\ UNCHANGED <<stored, cookie, going>>
       ELSE Deliver(c, reply)
    /\ IF c.here /\ reply = "ok"
       THEN formFields' = "loaded" /\ existing' = catalogue
       ELSE UNCHANGED <<formFields, existing>>
    /\ UNCHANGED <<localRows, newVariant, saving, imageVars, catalogue, live, shown, check>>

FallbackFetched ==
  \E c \in Asked("fallback"), ok \in BOOLEAN :
    /\ calls' = calls \ {c}
    /\ formFields' = IF c.here /\ ok THEN "loaded" ELSE formFields
    /\ UNCHANGED <<variantVars, saving, imageVars, catalogue, sessionVars, shellVars>>

(* handleSubmit; the button is disabled while it runs, and the browser     *)
(* asks for the required fields first.                                     *)
SaveEnabled == FormShown /\ ~saving /\ formFields # "blank"

SaveProduct ==
  /\ SaveEnabled
  /\ Send("store", shown, Nothing)
  /\ saving' = (stored # Nothing)
  /\ UNCHANGED <<formFields, variantVars, imageVars, catalogue, live, shown, check>>

(* router.push is called even when the page has gone.                      *)
ProductSaved ==
  \E c \in Asked("store"), reply \in Replies :
    /\ reply \in Answers(c.token)
    /\ IF reply = "ok"
       THEN /\ going' = IF c.arg = "new" THEN "edit" ELSE "products"
            /\ calls' = calls \ {c} /\ UNCHANGED <<stored, cookie>>
       ELSE Deliver(c, reply)
    /\ saving' = (saving /\ ~c.here)
    /\ UNCHANGED <<formFields, variantVars, imageVars, catalogue, live, shown, check>>

--------------------------------------------------------------------------------
(* Variants *)

(* The rows of a product that exists, of a new one, and the inline form.   *)
VariantRow(v) == Editing /\ v \in existing
LocalRow == shown = "new" /\ localRows > 0
NewVariantForm == Editing /\ newVariant

(* addVariant: a row of a new product is only local.  For an existing one  *)
(* the first click opens the inline form; the next sends a variant that no *)
(* row has yet, or only shows what is wrong with it.                       *)
AddVariant ==
  /\ FormShown
  /\ \/ ~Editing /\ localRows < MaxRows /\ localRows' = localRows + 1
        /\ UNCHANGED <<existing, newVariant, stored, cookie, going, calls>>
     \/ Editing /\ ~newVariant /\ newVariant' = TRUE
        /\ UNCHANGED <<localRows, existing, stored, cookie, going, calls>>
     \/ /\ NewVariantForm
        /\ \E v \in Variants \ existing : Send("create", v, existing)
        /\ UNCHANGED variantVars
  /\ UNCHANGED <<formFields, saving, imageVars, catalogue, live, shown, check>>

RemoveVariant ==
  /\ LocalRow
  /\ localRows' = localRows - 1
  /\ UNCHANGED <<formFields, existing, newVariant, saving, imageVars, catalogue, adminVars>>

CancelNewVariantForm ==
  /\ NewVariantForm
  /\ newVariant' = FALSE
  /\ UNCHANGED <<formFields, localRows, existing, saving, imageVars, catalogue, adminVars>>

(* "Save variant" of a row that passes the duplicate check; "Remove" of a  *)
(* row, once confirmed.  Nothing is disabled meanwhile.                    *)
UpdateVariant(v) ==
  /\ VariantRow(v)
  /\ Send("update", v, Nothing)
  /\ UNCHANGED <<formVars, live, shown, check>>

DeleteVariant(v) ==
  /\ VariantRow(v)
  /\ Send("remove", v, existing)
  /\ UNCHANGED <<formVars, live, shown, check>>

(* The answers write the rows the click saw, with or without the variant:  *)
(* of two answers the later one undoes the other on the screen.            *)
VariantCreated ==
  \E c \in Asked("create"), reply \in Replies :
    /\ reply \in Outcomes(c) /\ Deliver(c, reply)
    /\ IF c.here /\ reply = "ok"
       THEN existing' = c.context \cup {c.arg} /\ newVariant' = FALSE
       ELSE UNCHANGED <<existing, newVariant>>
    /\ UNCHANGED <<formFields, localRows, saving, imageVars, catalogue, live, shown, check>>

VariantUpdated ==
  \E c \in Asked("update"), reply \in Replies :
    /\ reply \in Answers(c.token) /\ Deliver(c, reply)
    /\ UNCHANGED <<formVars, live, shown, check>>

VariantRemoved ==
  \E c \in Asked("remove"), reply \in Replies :
    /\ reply \in Outcomes(c) /\ Deliver(c, reply)
    /\ existing' = IF c.here /\ reply = "ok" THEN c.context \ {c.arg} ELSE existing
    /\ UNCHANGED <<formFields, localRows, newVariant, saving, imageVars, catalogue,
                   live, shown, check>>

(* The API creates a variant once, and deletes one that is there unless it *)
(* was ordered.                                                            *)
ServeVariant ==
  \E c \in Asked("create") \cup Asked("remove") :
    /\ ~c.done /\ c.token \in live
    /\ IF c.op = "create" THEN c.arg \notin catalogue /\ catalogue' = catalogue \cup {c.arg}
       ELSE c.arg \in catalogue /\ catalogue' = catalogue \ {c.arg}
    /\ calls' = (calls \ {c}) \cup {[c EXCEPT !.done = TRUE]}
    /\ UNCHANGED <<formFields, variantVars, saving, imageVars, sessionVars, shellVars>>

--------------------------------------------------------------------------------
(* Images *)

(* A new product has a disabled input.                                     *)
ImageInput == Editing /\ ~uploading

(* handleFilesSelected: the valid files of a choice are appended.          *)
FilesSelected ==
  /\ ImageInput
  /\ \E f \in Files \ ToSet(selectedFiles) : selectedFiles' = Append(selectedFiles, f)
  /\ UNCHANGED <<formFields, variantVars, saving, mainIndex, mainChosen, uploading, catalogue,
                 adminVars>>

ChooseMain(i) ==
  /\ Editing
  /\ mainIndex' = i /\ mainChosen' = selectedFiles[i]
  /\ UNCHANGED <<formFields, variantVars, saving, selectedFiles, uploading, catalogue, adminVars>>

MainAfterRemoval_NoShift(i) == IF mainIndex = i THEN 0 ELSE mainIndex

(* The index of the main image follows the files behind it.                *)
MainAfterRemoval(i) ==
  IF mainIndex = i THEN 0 ELSE IF mainIndex > i THEN mainIndex - 1 ELSE mainIndex

(* removeSelectedFile, also while an upload runs.                          *)
RemoveSelectedFile(i) ==
  /\ Editing
  /\ selectedFiles' = RemoveAt(selectedFiles, i)
  /\ mainIndex' = MainAfterRemoval(i)
  /\ mainChosen' = IF mainIndex = i THEN Nothing ELSE mainChosen
  /\ UNCHANGED <<formFields, variantVars, saving, uploading, catalogue, adminVars>>

ClearSelection ==
  /\ Editing /\ ~uploading /\ selectedFiles # <<>>
  /\ selectedFiles' = <<>> /\ mainIndex' = 0 /\ mainChosen' = Nothing
  /\ UNCHANGED <<formFields, variantVars, saving, uploading, catalogue, adminVars>>

HandleImageUpload ==
  /\ Editing /\ ~uploading /\ selectedFiles # <<>>
  /\ Send("upload", Nothing, Nothing)
  /\ uploading' = (stored # Nothing)
  /\ UNCHANGED <<formFields, variantVars, saving, selectedFiles, mainIndex, mainChosen, catalogue,
                 live, shown, check>>

(* An accepted upload empties the choice.                                  *)
ImagesUploaded ==
  \E c \in Asked("upload"), reply \in Replies :
    /\ reply \in Answers(c.token) /\ Deliver(c, reply)
    /\ uploading' = (uploading /\ ~c.here)
    /\ IF c.here /\ reply = "ok"
       THEN selectedFiles' = <<>> /\ mainIndex' = 0 /\ mainChosen' = Nothing
       ELSE UNCHANGED <<selectedFiles, mainIndex, mainChosen>>
    /\ UNCHANGED <<formFields, variantVars, saving, catalogue, live, shown, check>>

--------------------------------------------------------------------------------

FormClosed ==
  /\ formFields' = "blank"
  /\ localRows' = 0 /\ existing' = {} /\ newVariant' = FALSE /\ saving' = FALSE
  /\ selectedFiles' = <<>> /\ mainIndex' = 0 /\ mainChosen' = Nothing /\ uploading' = FALSE
  /\ UNCHANGED catalogue

FormInit ==
  /\ formFields = "blank"
  /\ localRows = 0 /\ existing = {} /\ newVariant = FALSE /\ saving = FALSE
  /\ selectedFiles = <<>> /\ mainIndex = 0 /\ mainChosen = Nothing /\ uploading = FALSE
  /\ catalogue = Variants

FormAnswers == ServeVariant \/ ProductFetched \/ FallbackFetched \/ ProductSaved
               \/ VariantCreated \/ VariantUpdated \/ VariantRemoved \/ ImagesUploaded

FormNext ==
  \/ EditFields \/ SaveProduct
  \/ AddVariant \/ RemoveVariant \/ CancelNewVariantForm
  \/ \E v \in Variants : UpdateVariant(v) \/ DeleteVariant(v)
  \/ FilesSelected \/ ClearSelection \/ HandleImageUpload
  \/ \E i \in 1..Len(selectedFiles) : ChooseMain(i) \/ RemoveSelectedFile(i)
  \/ FormAnswers
================================================================================
