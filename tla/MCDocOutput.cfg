SPECIFICATION FairSpec
CONSTANTS
    TemplatesFile <- MCTemplatesFile
    OverviewLimit = 4
    Requests <- MCRequests
CHECK_DEADLOCK FALSE
INVARIANT TypeOK
INVARIANT ReportComplete
INVARIANT VerifiedBoards
INVARIANT ChartsInPlace
INVARIANT ChartsInOrder
INVARIANT UrlSurvives
INVARIANT MergeIgnoresTiming
INVARIANT NothingDropped
INVARIANT TemplateKept
PROPERTY PublicationEnds
