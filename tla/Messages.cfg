\* Two runs that overlap, polling or with a webhook; three updates of two messages.
SPECIFICATION Spec
CONSTANTS
    r1 = r1  r2 = r2  newcomer = newcomer  greeter = greeter
    Runs = {r1, r2}
    Messages = {newcomer, greeter}
    TextsOf <- Sayings
    TargetOf <- Greeted
    Settings <- PollAndWebhook
    MaxAttempts = 2
    NoJob = NoJob
    MaxUpdates = 3
    MaxFaults = 1
INVARIANTS
    NoMessageLost
    AnswersCurrentTexts
PROPERTIES
    DeliveredIsFinal
SYMMETRY RunsAlike
