---------------------------- MODULE AgentToolkit ---------------------------
(***************************************************************************)
(* The tools of the workplace bundle (feishu/agent/toolkit,                *)
(* bundles/workplace.py), as far as the agent that dispatches them and the *)
(* client below them can tell them apart: the API operations a handler may *)
(* call, in order, and how it may end; whether a scheduled turn may run it *)
(* (scheduled_effect), whether it needs a confirmation                     *)
(* (requires_approval), whose client it resolves (as_user), whether the    *)
(* agent looks for the user's authorization before it dispatches it        *)
(* (auth_scopes), and whether a permission error of the platform becomes a *)
(* request for authorization (add_scoped).  Arguments, results and what is *)
(* done to them are left out, and so are the tools of the memory and of    *)
(* the scheduled tasks, which call no API.                                 *)
(***************************************************************************)
EXTENDS FeishuApi

-----------------------------------------------------------------------------
\* Kinds of tools.  A plan is one way through a handler.

Tool(plans) ==
    [plans |-> plans, effect |-> "write", confirm |-> TRUE, view |-> "user",
     scoped |-> FALSE, wrapped |-> FALSE, caught |-> {}]

Plans(flows, end) == {[ops |-> f, end |-> end] : f \in flows}

Completes(flows) == Plans(flows, "completed")

\* FAILED and BLOCKED results; an exception of the handler's own; ToolValidationError.
Declines(flows) == Plans(flows, "declined")

Raises(flows) == Plans(flows, "raised")

Refuses == Plans({<<>>}, "invalid")

Writing(plans) == Tool(plans)

Reading(plans) == [Tool(plans) EXCEPT !.effect = "read", !.confirm = FALSE]

\* Neither scheduled_effect nor requires_approval.
Unmarked(plans) == [Tool(plans) EXCEPT !.effect = "none", !.confirm = FALSE]

ByApp(tool) == [tool EXCEPT !.view = "app"]

Scoped(tool) == [tool EXCEPT !.scoped = TRUE]

\* reauth_on_permission_error of _base.py
Wrapped(tool) == [tool EXCEPT !.scoped = TRUE, !.wrapped = TRUE]

\* What the operation raises ends in a FAILED result.
Catching(tool, op) == [tool EXCEPT !.caught = {op}]

\* One operation, or the operation after it has found the primary calendar.
One(op) == {<<op>>}

OnCalendar(op) == {<<op>>, <<calendars_primary, op>>}

NoCalendar == Raises({<<calendars_primary>>})

-----------------------------------------------------------------------------
\* toolkit/calendar.py and toolkit/rooms.py

list_calendar_events ==
    Wrapped(Reading(Completes(OnCalendar(events_instance_view)) \cup NoCalendar \cup Raises({<<>>})))
create_calendar_event == Wrapped(Writing(Completes(OnCalendar(events_create)) \cup NoCalendar))
query_calendar_freebusy == Wrapped(Reading(Completes(One(freebusy_query)) \cup Declines({<<>>})))
update_calendar_event == Wrapped(Writing(Completes(OnCalendar(events_update)) \cup NoCalendar))
cancel_calendar_event == Wrapped(Writing(Completes(OnCalendar(events_delete)) \cup NoCalendar))
respond_to_invite == Wrapped(Writing(Completes(OnCalendar(events_reply)) \cup NoCalendar))
list_meeting_room_buildings == Scoped(Reading(Completes(One(rooms_list_buildings))))
list_meeting_rooms == Scoped(Reading(Completes(One(rooms_list))))
query_meeting_room_freebusy == Scoped(Reading(Completes(One(rooms_freebusy))))
book_meeting_room ==
    Wrapped(Writing(Completes({<<calendars_primary, events_create, attendees_add>>,
                               <<calendars_primary, events_create>>}) \cup NoCalendar))

-----------------------------------------------------------------------------
\* toolkit/documents.py and toolkit/content.py

search_documents == Reading(Completes({<<wiki_search>>, <<files_list>>}))

\* A reference to a wiki node is resolved first; a node of another type is declined.
DocumentAfter(flow) ==
    Completes({flow \o <<docx_get_raw_content>>, flow \o <<wiki_get_node, docx_get_raw_content>>})
    \cup Declines({flow, flow \o <<wiki_get_node>>})

get_document_content == Reading(DocumentAfter(<<>>))
get_message_thread == Reading(Completes(One(im_list_reply_chain)))
get_meeting_record ==
    Reading(DocumentAfter(<<>>) \cup DocumentAfter(<<meetings_get>>) \cup DocumentAfter(<<meetings_list_by_no>>))
create_document == Writing(Completes(One(docx_create)))
append_to_document == Writing(Completes(One(docx_append_blocks)))
list_document_blocks == Reading(Completes(One(docx_list_blocks)))
update_document == Writing(Completes(One(docx_patch_block)))
delete_document == Writing(Completes(One(files_delete)))
append_to_sheet == Writing(Completes(One(sheets_append_range)))
update_sheet_range == Writing(Completes(One(sheets_write_range)))
delete_sheet_rows == Writing(Completes(One(sheets_delete_dimension)))
read_sheet_range == Reading(Completes(One(sheets_read_range)))
list_whiteboard_nodes == Reading(Completes(One(whiteboards_list_nodes)))

-----------------------------------------------------------------------------
\* toolkit/tasks.py and toolkit/bitable.py

create_task == Scoped(Writing(Completes(One(tasks_create))))
comment_on_task == Scoped(Writing(Completes(One(task_comments_create))))
update_task == Scoped(Writing(Completes(One(tasks_update))))
delete_task == Scoped(Writing(Completes(One(tasks_delete))))
update_task_comment == Scoped(Writing(Completes(One(task_comments_update))))
delete_task_comment == Scoped(Writing(Completes(One(task_comments_delete))))
list_my_tasks == Scoped(Reading(Completes(One(tasks_list))))
list_task_comments == Scoped(Reading(Completes(One(task_comments_list))))
create_bitable_record == Writing(Completes(One(records_create)))
update_bitable_record == Writing(Completes(One(records_update)))
delete_bitable_record == Writing(Completes(One(records_delete)))
list_bitable_records == Reading(Completes(One(records_list)))

-----------------------------------------------------------------------------
\* toolkit/approvals.py and toolkit/vc.py

list_approval_definitions == Reading(Completes(One(definitions_list)))
get_approval_definition == ByApp(Reading(Completes(One(definitions_get))))

\* The form is checked against its definition, and files are uploaded (one here), before
\* it is submitted; each may find a reason to decline.
create_approval_instance ==
    ByApp(Writing(
        Completes({<<definitions_get, instances_create>>,
                   <<definitions_get, approval_files_upload, instances_create>>})
        \cup Declines({<<>>, <<definitions_get>>, <<definitions_get, approval_files_upload>>})))

cancel_approval_instance == ByApp(Writing(Completes(One(instances_cancel)) \cup Declines({<<>>})))
get_approval_status ==
    ByApp(Reading(Completes(One(instances_get)) \cup Declines({<<>>, <<instances_get>>})))
approve_approval_task == ByApp(Writing(Completes(One(approval_tasks_approve)) \cup Declines({<<>>})))
reject_approval_task == ByApp(Writing(Completes(One(approval_tasks_reject)) \cup Declines({<<>>})))
list_my_pending_approvals == Reading(Completes(One(approval_tasks_query)) \cup Declines({<<>>}))
list_my_payment_accounts == ByApp(Unmarked(Completes({<<>>})))
reserve_meeting == Writing(Completes(One(reserves_apply)) \cup Declines({<<>>}))
update_reservation == Writing(Completes(One(reserves_update)))
cancel_reservation == Writing(Completes(One(reserves_delete)))

-----------------------------------------------------------------------------
\* toolkit/mail.py, toolkit/contacts.py and toolkit/shared_files.py

list_mail_messages == Wrapped(Reading(Completes(One(mail_list))))
search_mail_messages == Wrapped(Reading(Completes(One(mail_search))))
get_mail_message == Wrapped(Reading(Completes(One(mail_get))))
summarize_mail_message ==
    Catching(Wrapped(Unmarked(Completes(One(mail_get)) \cup Declines({<<>>, <<mail_get>>}))), mail_get)

\* The messages of a list are read at once, one of them here.
summarize_mail_messages ==
    Catching(Wrapped(Unmarked(Completes({<<mail_list, mail_get>>, <<mail_list>>, <<mail_get>>})
                              \cup Declines({<<>>, <<mail_list, mail_get>>, <<mail_get>>}))), mail_get)

list_mail_folders == Wrapped(Reading(Completes(One(folders_list))))
send_mail_message == Wrapped(Writing(Completes(One(mail_send)) \cup Refuses))
find_user == Reading(Completes(One(users_search)) \cup Declines({<<>>}))
list_shared_files == ByApp(Unmarked(Completes({<<>>})))
describe_shared_file == ByApp(Unmarked(Completes({<<>>}) \cup Declines({<<>>})))
upload_shared_file_to_drive == Writing(Completes(One(files_upload)) \cup Declines({<<>>}))

-----------------------------------------------------------------------------
\* _build_workplace_tool_registry
Registry == [
    list_calendar_events |-> list_calendar_events,
    create_calendar_event |-> create_calendar_event,
    query_calendar_freebusy |-> query_calendar_freebusy,
    update_calendar_event |-> update_calendar_event,
    cancel_calendar_event |-> cancel_calendar_event,
    respond_to_invite |-> respond_to_invite,
    list_meeting_room_buildings |-> list_meeting_room_buildings,
    list_meeting_rooms |-> list_meeting_rooms,
    query_meeting_room_freebusy |-> query_meeting_room_freebusy,
    book_meeting_room |-> book_meeting_room,
    search_documents |-> search_documents,
    get_document_content |-> get_document_content,
    get_message_thread |-> get_message_thread,
    get_meeting_record |-> get_meeting_record,
    create_document |-> create_document,
    append_to_document |-> append_to_document,
    list_document_blocks |-> list_document_blocks,
    update_document |-> update_document,
    delete_document |-> delete_document,
    append_to_sheet |-> append_to_sheet,
    update_sheet_range |-> update_sheet_range,
    delete_sheet_rows |-> delete_sheet_rows,
    read_sheet_range |-> read_sheet_range,
    list_whiteboard_nodes |-> list_whiteboard_nodes,
    create_task |-> create_task,
    comment_on_task |-> comment_on_task,
    update_task |-> update_task,
    delete_task |-> delete_task,
    update_task_comment |-> update_task_comment,
    delete_task_comment |-> delete_task_comment,
    list_my_tasks |-> list_my_tasks,
    list_task_comments |-> list_task_comments,
    create_bitable_record |-> create_bitable_record,
    update_bitable_record |-> update_bitable_record,
    delete_bitable_record |-> delete_bitable_record,
    list_bitable_records |-> list_bitable_records,
    list_approval_definitions |-> list_approval_definitions,
    get_approval_definition |-> get_approval_definition,
    create_approval_instance |-> create_approval_instance,
    cancel_approval_instance |-> cancel_approval_instance,
    get_approval_status |-> get_approval_status,
    approve_approval_task |-> approve_approval_task,
    reject_approval_task |-> reject_approval_task,
    list_my_pending_approvals |-> list_my_pending_approvals,
    list_my_payment_accounts |-> list_my_payment_accounts,
    reserve_meeting |-> reserve_meeting,
    update_reservation |-> update_reservation,
    cancel_reservation |-> cancel_reservation,
    list_mail_messages |-> list_mail_messages,
    search_mail_messages |-> search_mail_messages,
    get_mail_message |-> get_mail_message,
    summarize_mail_message |-> summarize_mail_message,
    summarize_mail_messages |-> summarize_mail_messages,
    list_mail_folders |-> list_mail_folders,
    send_mail_message |-> send_mail_message,
    find_user |-> find_user,
    list_shared_files |-> list_shared_files,
    describe_shared_file |-> describe_shared_file,
    upload_shared_file_to_drive |-> upload_shared_file_to_drive]

=============================================================================
