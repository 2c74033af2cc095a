----------------------------- MODULE FeishuApi -----------------------------
(***************************************************************************)
(* The operations of the API packages (feishu/im, drive, contact, ...), as *)
(* far as the client below them can tell them apart: the HTTP verb, who    *)
(* supplies the key by which the platform drops a repeated write, how the  *)
(* pages of a list are followed, whose token is sent, and whether some     *)
(* arguments are refused before anything is sent.  The paths, bodies and   *)
(* page sizes of the operations are left out.                              *)
(***************************************************************************)
EXTENDS Sequences

-----------------------------------------------------------------------------
\* Kinds of requests.

Request(verb, ns) == [verb |-> verb, ns |-> ns, writes |-> TRUE, key |-> "none",
                      pages |-> "one", limited |-> FALSE, token |-> "app"]

\* A request that only reads; Query is a read sent as a POST.
Get(ns) == [Request("GET", ns) EXCEPT !.writes = FALSE]

Query(ns) == [Request("POST", ns) EXCEPT !.writes = FALSE]

Post(ns) == Request("POST", ns)

Put(ns) == Request("PUT", ns)

Patch(ns) == Request("PATCH", ns)

Delete(ns) == Request("DELETE", ns)

\* The wrapper generates a uuid when the caller gives none; or sends the caller's only.
Keyed(op) == [op EXCEPT !.key = "always"]

MayBeKeyed(op) == [op EXCEPT !.key = "caller"]

\* Pages followed by pagination.iterate; by a loop of the wrapper that does not
\* compare page tokens; from a message to its parent; or one page that must be
\* the whole range.
Paged(op) == [op EXCEPT !.pages = "pages"]

Unguarded(op) == [op EXCEPT !.pages = "unguarded"]

Chain(op) == [op EXCEPT !.pages = "chain"]

Whole(op) == [op EXCEPT !.pages = "whole"]

\* Too many ids, or a malformed range, are refused before a request is made.
Limited(op) == [op EXCEPT !.limited = TRUE]

\* token_type=None, and token=... of the caller.
Anonymous(op) == [op EXCEPT !.token = "none"]

AsUserToken(op) == [op EXCEPT !.token = "given"]

-----------------------------------------------------------------------------
\* feishu/im

im_forward == Keyed(Post("im"))
im_get == Get("im")
im_get_resource == Get("im")
im_list == Paged(Get("im"))
im_list_reply_chain == Chain(Get("im"))
im_merge_forward == MayBeKeyed(Post("im"))
im_patch == Patch("im")
im_urgent == Limited(Patch("im"))
im_push_follow_up == Post("im")
im_read_users == Paged(Get("im"))
im_recall == Delete("im")
im_reply == Keyed(Post("im"))
im_send == Keyed(Post("im"))
im_update == Put("im")
im_upload_file == Post("im")
im_upload_image == Post("im")
chats_add_members == Post("im")
chats_create == Post("im")
chats_disband == Delete("im")
chats_get == Get("im")
chats_list == Paged(Get("im"))
chats_list_members == Paged(Get("im"))
chats_remove_members == Delete("im")
chats_update == Put("im")
reactions_create == Post("im")
reactions_delete == Delete("im")
reactions_list == Paged(Get("im"))
pins_create == Post("im")
pins_delete == Delete("im")
pins_list == Paged(Get("im"))

-----------------------------------------------------------------------------
\* feishu/drive

files_copy == Post("drive")
files_create_export_task == Post("drive")
files_create_folder == Post("drive")
files_delete == Delete("drive")
files_download == Get("drive")
files_download_export == Get("drive")
files_get_export_task == Get("drive")
files_batch_query_metas == Query("drive")
files_list == Paged(Get("drive"))
files_move == Post("drive")
files_upload == Post("drive")
permissions_create == Post("drive")
permissions_delete == Delete("drive")
permissions_get_public == Get("drive")
permissions_list == Get("drive")
permissions_set_public == Patch("drive")

-----------------------------------------------------------------------------
\* feishu/approval

instances_cancel == Post("approval")
instances_create == Post("approval")
instances_get == Get("approval")
instances_list == Paged(Get("approval"))
instances_query == Unguarded(Query("approval"))
approval_tasks_approve == Post("approval")
approval_tasks_reject == Post("approval")
approval_tasks_transfer == Post("approval")
approval_tasks_query == Paged(Get("approval"))
approval_files_upload == Post("approval")
approval_comments_create == Post("approval")
approval_comments_list == Paged(Get("approval"))
definitions_list == Paged(Get("approval"))
definitions_get == Get("approval")

-----------------------------------------------------------------------------
\* feishu/bitable

records_batch_create == Post("bitable")
records_batch_delete == Post("bitable")
records_batch_update == Post("bitable")
records_create == Post("bitable")
records_delete == Delete("bitable")
records_get == Get("bitable")
records_list == Paged(Get("bitable"))
records_search == Paged(Query("bitable"))
records_update == Put("bitable")
tables_create == Post("bitable")
tables_delete == Delete("bitable")
tables_list == Paged(Get("bitable"))
fields_list == Paged(Get("bitable"))
apps_get == Get("bitable")

-----------------------------------------------------------------------------
\* feishu/contact and feishu/directory

users_batch_get == Limited(Get("contact"))
users_batch_get_id == Query("contact")
users_create == Post("contact")
users_delete == Delete("contact")
users_get == Get("contact")
users_list == Paged(Get("contact"))
users_search == Paged(Get("contact"))
users_update == Patch("contact")
users_update_user_id == Patch("contact")
departments_create == Post("contact")
departments_delete == Delete("contact")
departments_get == Get("contact")
departments_list == Paged(Get("contact"))
departments_parent == Paged(Get("contact"))
departments_update == Patch("contact")
employees_mget == Limited(Query("directory"))

-----------------------------------------------------------------------------
\* feishu/mail

mail_batch_modify == Post("mail")
mail_get == Get("mail")
mail_get_by_card == Get("mail")
mail_list == Paged(Get("mail"))
mail_search == Paged(Query("mail"))
mail_send == MayBeKeyed(Post("mail"))
folders_list == Get("mail")
mail_events_subscribe == Post("mail")
mail_events_unsubscribe == Post("mail")
mail_users_query == Query("mail")

-----------------------------------------------------------------------------
\* feishu/docx, feishu/wiki, feishu/sheets, feishu/board

docx_append_blocks == Post("docx")
docx_batch_update_blocks == Patch("docx")
docx_create == Post("docx")
docx_get == Get("docx")
docx_get_block == Get("docx")
docx_list_blocks == Paged(Get("docx"))
docx_patch_block == Patch("docx")
docx_get_raw_content == Get("docx")
wiki_create_node == Post("wiki")
wiki_get_node == Get("wiki")
wiki_get_space == Get("wiki")
wiki_list_nodes == Paged(Get("wiki"))
wiki_list_spaces == Paged(Get("wiki"))
wiki_move_node == Post("wiki")
wiki_search == Paged(Query("wiki"))
wiki_update_node_title == Post("wiki")
sheets_append_range == Post("sheets")
sheets_create == Post("sheets")
sheets_delete_dimension == Delete("sheets")
sheets_get == Get("sheets")
sheets_list_sheets == Get("sheets")
sheets_read_range == Get("sheets")
sheets_rename == Patch("sheets")
sheets_write_range == Put("sheets")
whiteboards_download_as_image == Get("board")
whiteboards_get_theme == Get("board")
whiteboards_list_nodes == Get("board")

-----------------------------------------------------------------------------
\* feishu/calendar and feishu/meeting_room

events_create == MayBeKeyed(Post("calendar"))
events_delete == Delete("calendar")
events_get == Get("calendar")
events_list == Limited(Paged(Get("calendar")))
events_list_range == Whole(Limited(Get("calendar")))
events_instance_view == Limited(Get("calendar"))
events_update == Patch("calendar")
events_reply == Post("calendar")
calendars_create == Post("calendar")
calendars_delete == Delete("calendar")
calendars_get == Get("calendar")
calendars_list == Paged(Get("calendar"))
calendars_primary == Query("calendar")
calendars_update == Patch("calendar")
attendees_add == Post("calendar")
attendees_delete == Post("calendar")
attendees_list == Paged(Get("calendar"))
freebusy_query == Query("calendar")
rooms_list_buildings == Paged(Get("meeting_room"))
rooms_batch_get_buildings == Get("meeting_room")
rooms_list == Paged(Get("meeting_room"))
rooms_batch_get == Get("meeting_room")
rooms_freebusy == Get("meeting_room")

-----------------------------------------------------------------------------
\* feishu/task and feishu/vc

tasks_create == Post("task")
tasks_delete == Delete("task")
tasks_get == Get("task")
tasks_list == Paged(Get("task"))
tasks_update == Patch("task")
task_comments_create == Post("task")
task_comments_list == Paged(Get("task"))
task_comments_update == Patch("task")
task_comments_delete == Delete("task")
reserves_apply == Post("vc")
reserves_delete == Delete("vc")
reserves_get == Get("vc")
reserves_update == Put("vc")
meetings_get == Get("vc")
meetings_list_by_no == Paged(Get("vc"))

-----------------------------------------------------------------------------
\* feishu/auth/oauth: the token endpoint is anonymous, user_info takes the user's token

oauth_exchange_code == Anonymous(Post("oauth"))
oauth_refresh == Anonymous(Post("oauth"))
oauth_user_info == AsUserToken(Get("oauth"))
-----------------------------------------------------------------------------
Operations == {
    im_forward, im_get, im_get_resource, im_list, im_list_reply_chain,
    im_merge_forward, im_patch, im_urgent, im_push_follow_up, im_read_users,
    im_recall, im_reply, im_send, im_update, im_upload_file, im_upload_image,
    chats_add_members, chats_create, chats_disband, chats_get, chats_list,
    chats_list_members, chats_remove_members, chats_update, reactions_create,
    reactions_delete, reactions_list, pins_create, pins_delete, pins_list,
    files_copy, files_create_export_task, files_create_folder, files_delete,
    files_download, files_download_export, files_get_export_task,
    files_batch_query_metas, files_list, files_move, files_upload,
    permissions_create, permissions_delete, permissions_get_public,
    permissions_list, permissions_set_public, instances_cancel,
    instances_create, instances_get, instances_list, instances_query,
    approval_tasks_approve, approval_tasks_reject, approval_tasks_transfer,
    approval_tasks_query, approval_files_upload, approval_comments_create,
    approval_comments_list, definitions_list, definitions_get,
    records_batch_create, records_batch_delete, records_batch_update,
    records_create, records_delete, records_get, records_list, records_search,
    records_update, tables_create, tables_delete, tables_list, fields_list,
    apps_get, users_batch_get, users_batch_get_id, users_create, users_delete,
    users_get, users_list, users_search, users_update, users_update_user_id,
    departments_create, departments_delete, departments_get, departments_list,
    departments_parent, departments_update, employees_mget, mail_batch_modify,
    mail_get, mail_get_by_card, mail_list, mail_search, mail_send, folders_list,
    mail_events_subscribe, mail_events_unsubscribe, mail_users_query,
    docx_append_blocks, docx_batch_update_blocks, docx_create, docx_get,
    docx_get_block, docx_list_blocks, docx_patch_block, docx_get_raw_content,
    wiki_create_node, wiki_get_node, wiki_get_space, wiki_list_nodes,
    wiki_list_spaces, wiki_move_node, wiki_search, wiki_update_node_title,
    sheets_append_range, sheets_create, sheets_delete_dimension, sheets_get,
    sheets_list_sheets, sheets_read_range, sheets_rename, sheets_write_range,
    whiteboards_download_as_image, whiteboards_get_theme,
    whiteboards_list_nodes, events_create, events_delete, events_get,
    events_list, events_list_range, events_instance_view, events_update,
    events_reply, calendars_create, calendars_delete, calendars_get,
    calendars_list, calendars_primary, calendars_update, attendees_add,
    attendees_delete, attendees_list, freebusy_query, rooms_list_buildings,
    rooms_batch_get_buildings, rooms_list, rooms_batch_get, rooms_freebusy,
    tasks_create, tasks_delete, tasks_get, tasks_list, tasks_update,
    task_comments_create, task_comments_list, task_comments_update,
    task_comments_delete, reserves_apply, reserves_delete, reserves_get,
    reserves_update, meetings_get, meetings_list_by_no, oauth_exchange_code,
    oauth_refresh, oauth_user_info
}

(***************************************************************************)
(* Helpers that call several operations one after another; an error of one *)
(* ends them.  parent_ids is one call of departments.parent, expand_ids    *)
(* one per department (two here); the snapshot reads the departments and   *)
(* then the users of the root and of each department (one here); the raw   *)
(* content of a document may need its wiki node first, and is refused when *)
(* the node is not a docx.                                                 *)
(***************************************************************************)
departments_parent_ids == {<<departments_parent>>}

departments_expand_ids == {<<departments_parent, departments_parent>>}

fetch_organization_snapshot == {<<departments_list, users_list, users_list>>}

resolve_document_reference == {<<>>, <<wiki_get_node>>}

raw_document_content ==
    {<<docx_get_raw_content>>, <<wiki_get_node, docx_get_raw_content>>, <<wiki_get_node>>}

Flows == {<<op>> : op \in Operations} \cup departments_parent_ids \cup departments_expand_ids
         \cup fetch_organization_snapshot \cup raw_document_content

=============================================================================
