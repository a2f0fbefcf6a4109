----------------------------- MODULE PublishForm ------------------------------
(***************************************************************************)
(* The forms that publish something or open an account: a person picks     *)
(* pictures, which are uploaded at once, and submits, which sends the key  *)
(* the form holds at that moment.  The forms differ in what they disable   *)
(* meanwhile and in what they do with a success.                           *)
(***************************************************************************)
EXTENDS Naturals, Sequences

CONSTANTS MaxPicks,   \* bound: pictures picked
          MaxSubmits  \* bound: submissions

VARIABLES form,     \* the form open
          picks,    \* pictures picked so far
          picked,   \* the one picked last; 0: none
          key,      \* picture whose key the form holds
          uploads,  \* uploads under way
          waiting,  \* the flag uploading...
          saving,   \* the flag that disables the submit button
          post,     \* the submission under way
          published,     \* what the backend created or changed, in order
          place,    \* "form", "leaving" or "left"
          warned,   \* history: an upload failed, which the form said
          silent,   \* history: the answer to a submission was lost
          draft,    \* forms emptied so far: what is submitted next
          submits   \* submissions so far

pictureVars == <<picks, picked, key, uploads, waiting, warned>>
sendingVars == <<saving, post, published, place, silent, draft, submits>>
formVars    == <<form, pictureVars, sendingVars>>

(* A form: whether submitting waits for uploads, whether another picture may
   be picked during one, whether none may be picked again, and what success
   does: "leave" (router.push, while finally gives the button back), "clear"
   the form once the list was read again, "close" it at once, or "stay" to
   tell what happened; and whether the backend refuses a second time.       *)
Form(waits, picking, ends, once) == [waits |-> waits, picking |-> picking, ends |-> ends, once |-> once]

newProduct   == Form(FALSE, "always", {"leave"}, FALSE)
newEvent     == Form(FALSE, "always", {"leave"}, FALSE)
editEvent    == Form(FALSE, "always", {"leave"}, FALSE)
newWebinar   == Form(FALSE, "one by one", {"clear"}, FALSE)
newBundle    == Form(TRUE, "never", {"leave"}, FALSE)
editProduct  == Form(TRUE, "one by one", {"leave", "stay"}, FALSE)
sponsorForm  == Form(TRUE, "always", {"close"}, FALSE)
announcement == Form(TRUE, "one by one", {"clear"}, FALSE)
register     == Form(TRUE, "never", {"leave"}, TRUE)
login        == Form(TRUE, "never", {"leave"}, FALSE)
forgot       == Form(TRUE, "never", {"close"}, FALSE)
reset        == Form(TRUE, "never", {"close"}, TRUE)

Forms ==
    [newProduct |-> newProduct, newEvent |-> newEvent, editEvent |-> editEvent,
     newWebinar |-> newWebinar, newBundle |-> newBundle, editProduct |-> editProduct,
     sponsorForm |-> sponsorForm, announcement |-> announcement, register |-> register,
     login |-> login, forgot |-> forgot, reset |-> reset]

NoPost == [step |-> "none"]

FormInit ==
    /\ form \in DOMAIN Forms
    /\ picks = 0 /\ picked = 0 /\ key = 0 /\ uploads = {} /\ waiting = FALSE
    /\ saving = FALSE /\ post = NoPost /\ published = <<>>
    /\ place = "form" /\ warned = FALSE /\ silent = FALSE /\ draft = 0 /\ submits = 0

-----------------------------------------------------------------------------
\* handleCoverSelect and its kind: each upload is answered on its own.

CanPick ==
    /\ place # "left" /\ picks < MaxPicks
    /\ \/ Forms[form].picking = "always"
       \/ Forms[form].picking = "one by one" /\ ~waiting

PickCover ==
    /\ CanPick
    /\ picks' = picks + 1
    /\ picked' = picks'
    /\ uploads' = uploads \cup {picks'}
    /\ waiting' = TRUE
    /\ UNCHANGED <<form, key, warned, sendingVars>>

\* finally { setUploading(false) }, whichever upload ended.
CoverUploaded(n) ==
    /\ n \in uploads
    /\ key' = n
    /\ uploads' = uploads \ {n}
    /\ waiting' = FALSE
    /\ UNCHANGED <<form, picks, picked, warned, sendingVars>>

CoverFailed(n) ==
    /\ n \in uploads
    /\ uploads' = uploads \ {n}
    /\ waiting' = FALSE
    /\ warned' = TRUE
    /\ UNCHANGED <<form, picks, picked, key, sendingVars>>

-----------------------------------------------------------------------------
\* handleSubmit

\* Mutant: the button is only disabled during uploads.
CanSubmit_WhileSaving == place # "left" /\ (Forms[form].waits => ~waiting)

\* Mutant: no form waits for its upload.
CanSubmit_DuringUpload == place # "left" /\ ~saving

CanSubmit == place # "left" /\ ~saving /\ (Forms[form].waits => ~waiting)

\* The picture picked last is noted beside the one that is sent, which the
\* handlers read before they upload the file of a product.
handleSubmit ==
    /\ CanSubmit
    /\ submits < MaxSubmits
    /\ submits' = submits + 1
    /\ saving' = TRUE
    /\ post' = [step |-> "sent",
                row |-> [draft |-> draft, cover |-> key, picked |-> picked, warned |-> warned]]
    /\ UNCHANGED <<form, pictureVars, published, place, silent, draft>>

Create ==
    /\ post.step = "sent"
    /\ IF Forms[form].once /\ published # <<>>
       THEN /\ post' = [post EXCEPT !.step = "refused"]
            /\ UNCHANGED published
       ELSE /\ post' = [post EXCEPT !.step = "created"]
            /\ published' = Append(published, post.row)
    /\ UNCHANGED <<form, pictureVars, saving, place, silent, draft, submits>>

\* The error is shown in the form, which can be submitted again.
SubmitFailed ==
    /\ post.step \in {"sent", "refused", "created"}
    /\ silent' = (silent \/ post.step = "created")
    /\ saving' = FALSE /\ post' = NoPost
    /\ UNCHANGED <<form, pictureVars, published, place, draft, submits>>

Succeeds(end) ==
    /\ post.step = "created"
    /\ end \in Forms[form].ends

Leave ==
    /\ Succeeds("leave") /\ place' = "leaving" /\ saving' = FALSE /\ post' = NoPost
    /\ UNCHANGED <<form, pictureVars, published, silent, draft, submits>>

Close ==
    /\ Succeeds("close") /\ place' = "left" /\ saving' = FALSE /\ post' = NoPost
    /\ UNCHANGED <<form, pictureVars, published, silent, draft, submits>>

Stay ==
    /\ Succeeds("stay") /\ saving' = FALSE /\ post' = NoPost
    /\ UNCHANGED <<form, pictureVars, published, place, silent, draft, submits>>

\* An emptied form is ready for another publication once the list was read,
\* or not; an upload still under way is not forgotten.
Clear ==
    /\ Succeeds("clear") /\ post' = [step |-> "cleared"]
    /\ draft' = draft + 1
    /\ picked' = 0 /\ key' = 0
    /\ UNCHANGED <<form, picks, uploads, waiting, warned, saving, published, place, silent, submits>>

FormCleared ==
    /\ post.step = "cleared"
    /\ saving' = FALSE /\ post' = NoPost
    /\ UNCHANGED <<form, pictureVars, published, place, silent, draft, submits>>

Navigated ==
    /\ place = "leaving"
    /\ place' = "left"
    /\ UNCHANGED <<form, pictureVars, saving, post, published, silent, draft, submits>>

FormNext ==
    \/ PickCover
    \/ \E n \in uploads : CoverUploaded(n) \/ CoverFailed(n)
    \/ handleSubmit \/ Create \/ SubmitFailed
    \/ Leave \/ Navigated \/ Close \/ Stay \/ Clear \/ FormCleared

-----------------------------------------------------------------------------
FormTypeOK ==
    /\ form \in DOMAIN Forms
    /\ picks \in 0..MaxPicks /\ picked \in 0..picks /\ key \in 0..picks
    /\ uploads \subseteq 1..picks
    /\ waiting \in BOOLEAN /\ saving \in BOOLEAN /\ warned \in BOOLEAN /\ silent \in BOOLEAN
    /\ post.step \in {"none", "sent", "created", "refused", "cleared"}
    /\ Len(published) <= submits /\ submits \in 0..MaxSubmits
    /\ draft \in 0..submits
    /\ place \in {"form", "leaving", "left"}

CONSTANTS Hasty,       \* forms that may send another picture than the one picked
          Repeatable   \* forms whose button is back before the page has left

\* The lists name every form that does such a thing.
ASSUME FormAssumption ==
    /\ MaxPicks \in Nat /\ MaxSubmits \in Nat
    /\ \A f \in DOMAIN Forms :
         /\ ~Forms[f].waits \/ Forms[f].picking = "always" \/ "clear" \in Forms[f].ends => f \in Hasty
         /\ "stay" \in Forms[f].ends \/ ("leave" \in Forms[f].ends /\ ~Forms[f].once) => f \in Repeatable

\* What is published bears the picture picked last when it was submitted,
\* unless the form had said that an upload failed.
CoverSentIsTheOnePicked ==
    form \notin Hasty =>
      \A i \in DOMAIN published : published[i].cover = published[i].picked \/ published[i].warned

\* A form publishes twice only if the answer to the first was lost, so that
\* it was submitted again in good faith, or if the person was told and
\* stayed; what follows an emptied form is another publication.
TwinOnlyAfterSilence ==
    \A i, j \in DOMAIN published :
      i # j /\ published[i].draft = published[j].draft => silent \/ form \in Repeatable

===============================================================================
