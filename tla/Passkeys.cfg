SPECIFICATION FairSpec
CONSTANTS
    Flows = {app, modal, inbox}
    MaxCeremonies = 4
    app = app
    modal = modal
    inbox = inbox
INVARIANTS
    OneBrowserCall
PROPERTIES
    LogoutEndsThePrompt
    FlowsEnd
